---- MODULE Spec2Model ----
(***************************************************************************)
(* Model of the transcript scanner (src/src/main/services/scanner.ts), the *)
(* search indexer (services/indexer.ts) and the main-process wiring        *)
(* (src/src/main/index.ts) of claude-code-search-history.                  *)
(*                                                                         *)
(* JSON values are written by their printed form ("[h,h]" is an array of   *)
(* two hunks, "" the empty string, "null" the JSON null); the key of an    *)
(* object that is absent reads as Undefined, as a property read does in    *)
(* JavaScript.                                                             *)
(***************************************************************************)
EXTENDS Integers, Sequences, FiniteSets, TLC

VARIABLES
  \* ---- classifyToolResult applied to one payload
  raw, messageContent, pendingArg, result, classified,
  \* ---- parseConversation reading one file line by line
  lines, lineNumber, messages, sessionId, sessionName, latestTimestamp, cwd,
  textParts, pendingToolUses, parsed, conversation,
  \* ---- main process: initializeSearch, IPC handlers, scanner and indexer objects
  ready, disk, diskChanges, scanner, indexer, conversationsCache, projects,
  documents, pc, projectDirs, jsonlFiles, conversations, snapshot,
  completed, prevGen, lastReply, indexReadySent, rebuildReplied, index,
  \* ---- cleanContent applied to a text, and again to its own output
  rawText, cleaned, previous, passes,
  \* ---- the tool-use maps of the files parsed before; scanAll called again
  earlier, rescans,
  \* ---- generatePreview applied to a text and a query
  docText, docQuery, preview, previewed,
  \* ---- a project path, the directory name made of it, and its decoding
  originalPath, projectDirName, decodedPath, decodeStage,
  \* ---- ConversationView: its conversation prop and its state
  displayed, currentMessageIndex, chatSearchOpen, chatSearchQuery, currentMatchIndex,
  committed

cvars == <<raw, messageContent, pendingArg, result, classified>>
pvars == <<lines, lineNumber, messages, sessionId, sessionName, latestTimestamp,
           cwd, textParts, pendingToolUses, parsed, conversation>>
mvars == <<ready, disk, diskChanges, scanner, indexer, conversationsCache,
           projects, documents, pc, projectDirs, jsonlFiles, conversations,
           snapshot, completed, prevGen, lastReply, indexReadySent,
           rebuildReplied, index>>
tvars == <<rawText, cleaned, previous, passes>>
gvars == <<docText, docQuery, preview, previewed>>
dvars == <<originalPath, projectDirName, decodedPath, decodeStage>>
nvars == <<displayed, currentMessageIndex, chatSearchOpen, chatSearchQuery,
           currentMatchIndex, committed>>
xvars == <<earlier, rescans, gvars, dvars, nvars>>
vars == <<cvars, pvars, mvars, tvars, xvars>>

----------------------------------------------------------------------------
(* Bounds *)

MaxKeys == 5
MaxLines == 3
MaxRebuilds == 2
MaxDiskChanges == 1
MaxChunks == 6
MaxBuilds == 2
MaxLimit == 2
MaxFilesParsed == 2
MaxSegments == 3
MaxRescans == 2
MaxMessages == 3

----------------------------------------------------------------------------
(* JavaScript values *)

Undefined == "undefined"
Null == "null"

\* !v : undefined, null, the empty string, 0 and false are falsy; an empty
\* array and an empty object are truthy.
Truthy(v) == v \notin {Undefined, Null, "", "0", "false"}

\* Array.length of a printed array
ArrayLen(v) ==
  CASE v = "[]" -> 0
    [] v = "[h]" -> 1
    [] v = "[h,h]" -> 2
    [] v = "[h,h,h]" -> 3
    [] OTHER -> -1

\* typeof v === 'object' && v !== null, for the nested file / task values
IsObjectValue(v) == v \in {"{}", "{filePath:/f}", "{id:1}", "{id:1,subject:s}"}

\* v.filePath, v.id, v.subject of a nested object
FilePathOf(v) == IF v = "{filePath:/f}" THEN "/f" ELSE Undefined
TaskIdOf(v) == IF v \in {"{id:1}", "{id:1,subject:s}"} THEN "1" ELSE Undefined
TaskSubjectOf(v) == IF v = "{id:1,subject:s}" THEN "s" ELSE Undefined

----------------------------------------------------------------------------
(* Message content: message.content of a log record.                       *)
(* kind "none" (absent), "string" (str) or "array" (items).  An item is    *)
(* [type, text, id, name]: type "text" with its text, "tool_result" with   *)
(* tool_use_id in id and its string content in text ("" when the content   *)
(* is absent or not a string), "tool_use" with id and name.                *)

NoContent == [kind |-> "none", str |-> <<>>, items |-> <<>>]
StrContent(s) == [kind |-> "string", str |-> s, items |-> <<>>]
ArrContent(its) == [kind |-> "array", str |-> <<>>, items |-> its]
TextItem(s) == [type |-> "text", text |-> s, id |-> "", name |-> ""]
ToolResultItem(i, s) == [type |-> "tool_result", text |-> s, id |-> i, name |-> ""]
ToolUseItem(i, n) == [type |-> "tool_use", text |-> <<>>, id |-> i, name |-> n]

\* Array.prototype.find: the first item satisfying the test, or Undefined
RECURSIVE FindToolResultFrom(_, _)
FindToolResultFrom(items, i) ==
  IF i > Len(items) THEN 0
  ELSE IF items[i].type = "tool_result" THEN i
  ELSE FindToolResultFrom(items, i + 1)

\* Tool name of a generic result: the pending tool_use whose id is the
\* tool_use_id of the first tool_result item of the sibling content.
ResolveToolName(content, pend) ==
  IF content.kind # "array" THEN "unknown"
  ELSE LET i == FindToolResultFrom(content.items, 1) IN
       IF i = 0 THEN "unknown"
       ELSE IF content.items[i].id = "" THEN "unknown"
       ELSE IF content.items[i].id \in DOMAIN pend
            THEN pend[content.items[i].id].name
            ELSE "unknown"

----------------------------------------------------------------------------
(* Tool-result payloads (entry.toolUseResult).                             *)
(* kind "object" with its fields, or a non-object ("string", "null").      *)

ObjectRaw(f) == [kind |-> "object", fields |-> f]
EmptyFields == [k \in {} |-> ""]
StringRaw == [kind |-> "string", fields |-> EmptyFields]
NullRaw == [kind |-> "null", fields |-> EmptyFields]
AbsentRaw == [kind |-> "absent", fields |-> EmptyFields]

Has(r, k) == k \in DOMAIN r.fields
Get(r, k) == IF Has(r, k) THEN r.fields[k] ELSE Undefined

\* The structural tests of classifyToolResult, one per variant
IsEdit(r) == Truthy(Get(r, "structuredPatch")) /\ Get(r, "oldString") # Undefined
             /\ Truthy(Get(r, "filePath"))
IsWrite(r) == Get(r, "type") = "create" /\ Truthy(Get(r, "filePath"))
IsRead(r) == Get(r, "type") = "text" /\ Truthy(Get(r, "file"))
             /\ IsObjectValue(Get(r, "file"))
             /\ Truthy(FilePathOf(Get(r, "file")))
IsBash(r) == Has(r, "stdout") /\ Has(r, "stderr")
IsGrep(r) == Has(r, "mode") /\ Has(r, "numLines") /\ Has(r, "filenames")
IsGlob(r) == Has(r, "filenames") /\ Has(r, "numFiles") /\ ~Has(r, "mode")
IsTaskAgent(r) == Has(r, "status") /\ Has(r, "prompt") /\ Has(r, "agentId")
IsTaskCreate(r) == Has(r, "task") /\ IsObjectValue(Get(r, "task"))
                   /\ Truthy(TaskIdOf(Get(r, "task")))
                   /\ Truthy(TaskSubjectOf(Get(r, "task")))
IsTaskUpdate(r) == Has(r, "taskId") /\ Has(r, "updatedFields")
IsMessageOnly(r) == Has(r, "message") /\ Cardinality(DOMAIN r.fields) = 1

\* (x as boolean) || false, (x as number) || 0
OrFalse(v) == IF Truthy(v) THEN v ELSE "false"
OrZero(v) == IF Truthy(v) THEN v ELSE "0"

NoResult == [type |-> "null"]

\* Faulty variant: the edit variant built from the wrong fields (newString copied
\* into oldString, the hunk list not carried over).
EditResult_wrongFields(r) ==
  [type |-> "edit", filePath |-> Get(r, "filePath"),
   oldString |-> Get(r, "newString"), newString |-> Get(r, "newString"),
   structuredPatch |-> "[]",
   userModified |-> OrFalse(Get(r, "userModified")),
   replaceAll |-> OrFalse(Get(r, "replaceAll"))]

EditResult(r) ==
  [type |-> "edit", filePath |-> Get(r, "filePath"),
   oldString |-> Get(r, "oldString"), newString |-> Get(r, "newString"),
   structuredPatch |-> Get(r, "structuredPatch"),
   userModified |-> OrFalse(Get(r, "userModified")),
   replaceAll |-> OrFalse(Get(r, "replaceAll"))]

WriteResult(r) == [type |-> "write", filePath |-> Get(r, "filePath")]

ReadResult(r) == [type |-> "read", filePath |-> FilePathOf(Get(r, "file"))]

BashResult(r) ==
  [type |-> "bash", stdout |-> Get(r, "stdout"), stderr |-> Get(r, "stderr"),
   interrupted |-> OrFalse(Get(r, "interrupted"))]

GrepResult(r) ==
  [type |-> "grep", mode |-> Get(r, "mode"), filenames |-> Get(r, "filenames"),
   content |-> Get(r, "content"), numFiles |-> OrZero(Get(r, "numFiles")),
   numLines |-> OrZero(Get(r, "numLines"))]

GlobResult(r) ==
  [type |-> "glob", filenames |-> Get(r, "filenames"),
   numFiles |-> OrZero(Get(r, "numFiles")),
   truncated |-> OrFalse(Get(r, "truncated"))]

TaskAgentResult(r) ==
  [type |-> "taskAgent", status |-> Get(r, "status"),
   prompt |-> Get(r, "prompt"), agentId |-> Get(r, "agentId")]

TaskCreateResult(r) ==
  [type |-> "taskCreate", taskId |-> TaskIdOf(Get(r, "task")),
   subject |-> TaskSubjectOf(Get(r, "task"))]

TaskUpdateResult(r) ==
  [type |-> "taskUpdate", taskId |-> Get(r, "taskId"),
   updatedFields |-> Get(r, "updatedFields"),
   statusChange |-> Get(r, "statusChange")]

GenericResult(r, content, pend) ==
  [type |-> "generic", toolName |-> ResolveToolName(content, pend), data |-> r]

\* Faulty variant: the bash test moved in front of the edit, write and read tests.
classifyToolResult_bashFirst(r, content, pend) ==
  IF r.kind # "object" THEN NoResult
  ELSE IF IsBash(r) THEN BashResult(r)
  ELSE IF IsEdit(r) THEN EditResult(r)
  ELSE IF IsWrite(r) THEN WriteResult(r)
  ELSE IF IsRead(r) THEN ReadResult(r)
  ELSE IF IsGrep(r) THEN GrepResult(r)
  ELSE IF IsGlob(r) THEN GlobResult(r)
  ELSE IF IsTaskAgent(r) THEN TaskAgentResult(r)
  ELSE IF IsTaskCreate(r) THEN TaskCreateResult(r)
  ELSE IF IsTaskUpdate(r) THEN TaskUpdateResult(r)
  ELSE GenericResult(r, content, pend)

\* Faulty variant: the glob test moved in front of the bash test.
classifyToolResult_globFirst(r, content, pend) ==
  IF r.kind # "object" THEN NoResult
  ELSE IF IsEdit(r) THEN EditResult(r)
  ELSE IF IsWrite(r) THEN WriteResult(r)
  ELSE IF IsRead(r) THEN ReadResult(r)
  ELSE IF IsGlob(r) THEN GlobResult(r)
  ELSE IF IsBash(r) THEN BashResult(r)
  ELSE IF IsGrep(r) THEN GrepResult(r)
  ELSE IF IsTaskAgent(r) THEN TaskAgentResult(r)
  ELSE IF IsTaskCreate(r) THEN TaskCreateResult(r)
  ELSE IF IsTaskUpdate(r) THEN TaskUpdateResult(r)
  ELSE GenericResult(r, content, pend)

\* Faulty variant: no fallback, a payload of no specific shape is not classified.
classifyToolResult_noFallback(r, content, pend) ==
  IF r.kind # "object" THEN NoResult
  ELSE IF IsEdit(r) THEN EditResult(r)
  ELSE IF IsWrite(r) THEN WriteResult(r)
  ELSE IF IsRead(r) THEN ReadResult(r)
  ELSE IF IsBash(r) THEN BashResult(r)
  ELSE IF IsGrep(r) THEN GrepResult(r)
  ELSE IF IsGlob(r) THEN GlobResult(r)
  ELSE IF IsTaskAgent(r) THEN TaskAgentResult(r)
  ELSE IF IsTaskCreate(r) THEN TaskCreateResult(r)
  ELSE IF IsTaskUpdate(r) THEN TaskUpdateResult(r)
  ELSE IF IsMessageOnly(r) THEN GenericResult(r, content, pend)
  ELSE NoResult

classifyToolResult(r, content, pend) ==
  IF r.kind # "object" THEN NoResult
  ELSE IF IsEdit(r) THEN EditResult(r)
  ELSE IF IsWrite(r) THEN WriteResult(r)
  ELSE IF IsRead(r) THEN ReadResult(r)
  ELSE IF IsBash(r) THEN BashResult(r)
  ELSE IF IsGrep(r) THEN GrepResult(r)
  ELSE IF IsGlob(r) THEN GlobResult(r)
  ELSE IF IsTaskAgent(r) THEN TaskAgentResult(r)
  ELSE IF IsTaskCreate(r) THEN TaskCreateResult(r)
  ELSE IF IsTaskUpdate(r) THEN TaskUpdateResult(r)
  ELSE IF IsMessageOnly(r) THEN GenericResult(r, content, pend)
  ELSE GenericResult(r, content, pend)

----------------------------------------------------------------------------
(* Payloads given to the classifier: every object of at most MaxKeys keys  *)
(* over the keys the classifier looks at (and one it does not), and the    *)
(* two non-objects.                                                        *)

KeyVals ==
  [structuredPatch |-> {Null, "[]", "[h]", "[h,h]"},
   oldString       |-> {"", "a"},
   newString       |-> {"b"},
   filePath        |-> {"", "/f"},
   type            |-> {"create", "text"},
   file            |-> {"str", "{}", "{filePath:/f}"},
   stdout          |-> {""},
   stderr          |-> {""},
   mode            |-> {"content"},
   numLines        |-> {"0"},
   filenames       |-> {"[]"},
   numFiles        |-> {"0"},
   status          |-> {"completed"},
   prompt          |-> {"p"},
   agentId         |-> {"a1"},
   task            |-> {Null, "{id:1}", "{id:1,subject:s}"},
   taskId          |-> {"1"},
   updatedFields   |-> {"[]"},
   message         |-> {"m"},
   other           |-> {"x"}]

Keys == DOMAIN KeyVals

WithField(f, k, v) == [x \in DOMAIN f \cup {k} |-> IF x = k THEN v ELSE f[x]]

\* The objects whose key set is K
RECURSIVE ObjectsOver(_)
ObjectsOver(K) ==
  IF K = {} THEN {EmptyFields}
  ELSE LET k == CHOOSE x \in K : TRUE IN
       {WithField(f, k, v) : f \in ObjectsOver(K \ {k}), v \in KeyVals[k]}

KeySets == {K \in SUBSET Keys : Cardinality(K) <= MaxKeys}

ToolUseBlock(i, n) == [id |-> i, name |-> n]
NoPending == [k \in {} |-> ToolUseBlock("", "")]

SiblingContents == {NoContent, ArrContent(<<ToolResultItem("t1", <<>>)>>)}
PendingMaps == {NoPending, [k \in {"t1"} |-> ToolUseBlock("t1", "Bash")]}

----------------------------------------------------------------------------
(* Text.  A string is the sequence of its characters.  The control tags of *)
(* SYSTEM_TAG_RE are written with one-letter names: "<T>" is the three     *)
(* characters "<", "T", ">" and "</T>" the four "<", "/", "T", ">".        *)

TagNames == {"T", "U"}

IsHSpace(c) == c \in {" ", "\t"}
IsSpace(c) == c \in {" ", "\t", "\n"}

\* <(T|U)> at position i: the tag name, or "" when no opening tag starts there
OpenTagAt(s, i) ==
  IF i + 2 <= Len(s) /\ s[i] = "<" /\ s[i + 1] \in TagNames /\ s[i + 2] = ">"
  THEN s[i + 1] ELSE ""

CloseTagAt(s, j, t) ==
  j + 3 <= Len(s) /\ s[j] = "<" /\ s[j + 1] = "/" /\ s[j + 2] = t /\ s[j + 3] = ">"

\* [\s\S]*?<\/\1> from position j: the position of the nearest closing tag
\* of the same name, or 0
RECURSIVE FindClose(_, _, _)
FindClose(s, j, t) ==
  IF j + 3 > Len(s) THEN 0
  ELSE IF CloseTagAt(s, j, t) THEN j
  ELSE FindClose(s, j + 1, t)

\* .replace(SYSTEM_TAG_RE, ''): one left-to-right pass
RECURSIVE StripTagsFrom(_, _)
StripTagsFrom(s, i) ==
  IF i > Len(s) THEN <<>>
  ELSE LET t == OpenTagAt(s, i)
           j == IF t = "" THEN 0 ELSE FindClose(s, i + 3, t)
       IN IF j # 0 THEN StripTagsFrom(s, j + 4)
          ELSE <<s[i]>> \o StripTagsFrom(s, i + 1)

\* .replace(/[^\S\n]+/g, ' ')
RECURSIVE CollapseHSpace(_)
CollapseHSpace(s) ==
  IF s = <<>> THEN <<>>
  ELSE IF IsHSpace(s[1]) THEN
    IF Len(s) >= 2 /\ IsHSpace(s[2]) THEN CollapseHSpace(Tail(s))
    ELSE <<" ">> \o CollapseHSpace(Tail(s))
  ELSE <<s[1]>> \o CollapseHSpace(Tail(s))

\* .replace(/\n{3,}/g, '\n\n')
RECURSIVE CollapseNewlines(_)
CollapseNewlines(s) ==
  IF s = <<>> THEN <<>>
  ELSE IF Len(s) >= 3 /\ s[1] = "\n" /\ s[2] = "\n" /\ s[3] = "\n"
       THEN CollapseNewlines(Tail(s))
       ELSE <<s[1]>> \o CollapseNewlines(Tail(s))

\* .trim()
RECURSIVE TrimLeft(_)
TrimLeft(s) == IF s # <<>> /\ IsSpace(s[1]) THEN TrimLeft(Tail(s)) ELSE s

RECURSIVE TrimRight(_)
TrimRight(s) ==
  IF s # <<>> /\ IsSpace(s[Len(s)]) THEN TrimRight(SubSeq(s, 1, Len(s) - 1)) ELSE s

Trim(s) == TrimRight(TrimLeft(s))

cleanContent(text) == Trim(CollapseNewlines(CollapseHSpace(StripTagsFrom(text, 1))))

\* Array.prototype.join(' ')
RECURSIVE JoinSpace(_)
JoinSpace(parts) ==
  IF parts = <<>> THEN <<>>
  ELSE IF Len(parts) = 1 THEN parts[1]
  ELSE parts[1] \o <<" ">> \o JoinSpace(Tail(parts))

\* the item texts of extractContent's .map(...).filter(Boolean).map(cleanContent)
RECURSIVE ItemTexts(_)
ItemTexts(items) ==
  IF items = <<>> THEN <<>>
  ELSE LET it == items[1]
           t == IF it.type \in {"str", "text", "tool_result"} THEN it.text ELSE <<>>
       IN (IF t = <<>> THEN <<>> ELSE <<cleanContent(t)>>) \o ItemTexts(Tail(items))

extractContent(content) ==
  IF content.kind = "none" THEN <<>>
  ELSE IF content.kind = "string" THEN
    (IF content.str = <<>> THEN <<>> ELSE cleanContent(content.str))
  ELSE IF content.kind = "array" THEN JoinSpace(ItemTexts(content.items))
  ELSE <<>>

RECURSIVE MapNames(_)
MapNames(items) ==
  IF items = <<>> THEN <<>> ELSE <<items[1].name>> \o MapNames(Tail(items))

RECURSIVE MapBlocks(_)
MapBlocks(items) ==
  IF items = <<>> THEN <<>>
  ELSE <<[id |-> items[1].id, name |-> items[1].name]>> \o MapBlocks(Tail(items))

extractToolUseNames(content) ==
  IF content.kind # "array" THEN <<>>
  ELSE MapNames(SelectSeq(content.items, LAMBDA it : it.type = "tool_use" /\ it.name # ""))

extractToolUseBlocks(content) ==
  IF content.kind # "array" THEN <<>>
  ELSE MapBlocks(SelectSeq(content.items,
                           LAMBDA it : it.type = "tool_use" /\ it.name # "" /\ it.id # ""))

isOnlyToolResult(content) ==
  /\ content.kind = "array"
  /\ Len(content.items) > 0
  /\ \A i \in 1..Len(content.items) : content.items[i].type = "tool_result"

\* JavaScript string comparison a > b (by code unit, a proper prefix is smaller)
RECURSIVE StrGreater(_, _)
StrGreater(a, b) ==
  IF a = <<>> THEN FALSE
  ELSE IF b = <<>> THEN TRUE
  ELSE IF a[1] # b[1] THEN a[1] > b[1]
  ELSE StrGreater(Tail(a), Tail(b))

\* getShortProjectName: the last three segments of a path (a path is the
\* sequence of its non-empty segments)
getShortProjectName(fullPath) ==
  IF Len(fullPath) <= 3 THEN fullPath
  ELSE SubSeq(fullPath, Len(fullPath) - 2, Len(fullPath))

----------------------------------------------------------------------------
(* parseConversation: one transcript file read line by line.               *)
(* A line is blank, malformed (JSON.parse throws) or a JSON record with    *)
(* its cwd (a path), sessionId, slug, timestamp (a string of digits),      *)
(* type, isMeta, message.content and toolUseResult.                        *)

FilePath == "/projects/-u-p/s9.jsonl"
FileStem == "s9"
FallbackProjectName == <<"u", "p">>
NowISO == <<9>>

\* message.usage: absent, or its four token counts
NoUsage ==
  [given |-> FALSE, input_tokens |-> 0, output_tokens |-> 0,
   cache_read_input_tokens |-> 0, cache_creation_input_tokens |-> 0]
Usage(i, o, r, c) ==
  [given |-> TRUE, input_tokens |-> i, output_tokens |-> o,
   cache_read_input_tokens |-> r, cache_creation_input_tokens |-> c]

BlankLine ==
  [kind |-> "blank", cwd |-> <<>>, sessionId |-> "", slug |-> "", timestamp |-> <<>>,
   type |-> "", isMeta |-> FALSE, content |-> NoContent, toolUseResult |-> AbsentRaw,
   model |-> Undefined, stop_reason |-> Undefined, gitBranch |-> Undefined,
   version |-> Undefined, usage |-> NoUsage]

MalformedLine == [BlankLine EXCEPT !.kind = "malformed"]

\* A record without message.model, message.stop_reason, message.usage,
\* gitBranch and version
JsonLine(c, sid, sl, ts, ty, meta, content, tur) ==
  [BlankLine EXCEPT !.kind = "json", !.cwd = c, !.sessionId = sid, !.slug = sl,
                    !.timestamp = ts, !.type = ty, !.isMeta = meta,
                    !.content = content, !.toolUseResult = tur]

\* The record with those five keys
WithRecordFields(line, m, stop, branch, ver, u) ==
  [line EXCEPT !.model = m, !.stop_reason = stop, !.gitBranch = branch,
               !.version = ver, !.usage = u]

\* if (entry.x && !x) x = entry.x
\* Faulty variant: the last non-empty value wins.
FirstWins_lastWins(current, observed, empty) ==
  IF observed # empty THEN observed ELSE current

FirstWins(current, observed, empty) ==
  IF observed # empty /\ current = empty THEN observed ELSE current

\* if (entry.timestamp) if (!latestTimestamp || entry.timestamp > latestTimestamp) ...
\* Faulty variant: the timestamp of the last line with one is kept.
RunningMax_lastSeen(latest, ts) == IF ts # <<>> THEN ts ELSE latest

RunningMax(latest, ts) ==
  IF ts # <<>> /\ (latest = <<>> \/ StrGreater(ts, latest)) THEN ts ELSE latest

\* for (const block of toolUseBlocks) pendingToolUses.set(block.id, block)
RECURSIVE Register(_, _)
Register(pend, blocks) ==
  IF blocks = <<>> THEN pend
  ELSE Register([k \in DOMAIN pend \cup {blocks[1].id} |->
                   IF k = blocks[1].id THEN blocks[1] ELSE pend[k]],
                Tail(blocks))

\* Faulty variant: records flagged isMeta are not skipped.
IsMessageRecord_metaKept(line) == line.type \in {"user", "assistant"}

IsMessageRecord(line) == line.type \in {"user", "assistant"} /\ ~line.isMeta

hasToolUseResult(line) ==
  line.type = "user" /\ line.toolUseResult.kind \in {"object", "string"}

isToolResultMessage(line) == hasToolUseResult(line) /\ isOnlyToolResult(line.content)

\* Faulty variant: a message is kept only when it has display text.
KeepsMessage_textOnly(line) ==
  IsMessageRecord(line) /\ extractContent(line.content) # <<>>

KeepsMessage(line) ==
  /\ IsMessageRecord(line)
  /\ (extractContent(line.content) # <<>> \/ isToolResultMessage(line))

ToolResultsOf(line, pend) ==
  IF hasToolUseResult(line)
  THEN LET c == classifyToolResult(line.toolUseResult, line.content, pend)
       IN IF c.type = "null" THEN <<>> ELSE <<c>>
  ELSE <<>>

\* The keys the metadata object of a message is given
MetadataKeys(line, pend) ==
  (IF Truthy(line.model) THEN {"model"} ELSE {})
    \cup (IF line.stop_reason # Undefined THEN {"stopReason"} ELSE {})
    \cup (IF Truthy(line.gitBranch) THEN {"gitBranch"} ELSE {})
    \cup (IF Truthy(line.version) THEN {"version"} ELSE {})
    \cup (IF line.usage.given /\ line.usage.input_tokens # 0
          THEN {"inputTokens"} ELSE {})
    \cup (IF line.usage.given /\ line.usage.output_tokens # 0
          THEN {"outputTokens"} ELSE {})
    \cup (IF line.usage.given /\ line.usage.cache_read_input_tokens # 0
          THEN {"cacheReadTokens"} ELSE {})
    \cup (IF line.usage.given /\ line.usage.cache_creation_input_tokens # 0
          THEN {"cacheCreationTokens"} ELSE {})
    \cup (IF extractToolUseNames(line.content) # <<>> THEN {"toolUses"} ELSE {})
    \cup (IF extractToolUseBlocks(line.content) # <<>> THEN {"toolUseBlocks"} ELSE {})
    \cup (IF ToolResultsOf(line, pend) # <<>> THEN {"toolResults"} ELSE {})

\* metadata: Object.keys(metadata).length > 0 ? metadata : undefined; a key
\* that is not given reads as undefined (a count as 0, a list as empty)
MessageMetadata(line, pend) ==
  LET keys == MetadataKeys(line, pend) IN
  [present |-> keys # {},
   keys |-> keys,
   model |-> IF "model" \in keys THEN line.model ELSE Undefined,
   stopReason |-> IF "stopReason" \in keys THEN line.stop_reason ELSE Undefined,
   gitBranch |-> IF "gitBranch" \in keys THEN line.gitBranch ELSE Undefined,
   version |-> IF "version" \in keys THEN line.version ELSE Undefined,
   inputTokens |-> IF "inputTokens" \in keys THEN line.usage.input_tokens ELSE 0,
   outputTokens |-> IF "outputTokens" \in keys THEN line.usage.output_tokens ELSE 0,
   cacheReadTokens |->
     IF "cacheReadTokens" \in keys THEN line.usage.cache_read_input_tokens ELSE 0,
   cacheCreationTokens |->
     IF "cacheCreationTokens" \in keys THEN line.usage.cache_creation_input_tokens ELSE 0,
   toolUses |-> extractToolUseNames(line.content),
   toolUseBlocks |-> extractToolUseBlocks(line.content),
   toolResults |-> ToolResultsOf(line, pend)]

NewMessage(line, n, pend) ==
  [type |-> line.type,
   content |-> extractContent(line.content),
   timestamp |-> line.timestamp,
   metadata |-> MessageMetadata(line, pend),
   lineNumber |-> n,
   isToolResult |-> isToolResultMessage(line)]

\* const pendingToolUses = new Map(), whatever map an earlier call had
\* Faulty variant: the map of the file parsed before is used again.
NewPendingMap_kept(old) == old

NewPendingMap(old) == NoPending

\* One iteration of the for-await loop over the lines of the file
ParseLine(line) ==
  /\ ~parsed
  /\ lineNumber < MaxLines
  /\ lines' = Append(lines, line)
  /\ lineNumber' = lineNumber + 1
  /\ IF line.kind # "json"
     THEN UNCHANGED <<cwd, sessionId, sessionName, latestTimestamp, messages,
                      textParts, pendingToolUses>>
     ELSE /\ cwd' = FirstWins(cwd, line.cwd, <<>>)
          /\ sessionId' = FirstWins(sessionId, line.sessionId, "")
          /\ sessionName' = FirstWins(sessionName, line.slug, "")
          /\ latestTimestamp' = RunningMax(latestTimestamp, line.timestamp)
          /\ pendingToolUses' = IF IsMessageRecord(line)
                                THEN Register(pendingToolUses, extractToolUseBlocks(line.content))
                                ELSE pendingToolUses
          /\ messages' = IF KeepsMessage(line)
                         THEN Append(messages, NewMessage(line, lineNumber', pendingToolUses'))
                         ELSE messages
          /\ textParts' = IF KeepsMessage(line) /\ extractContent(line.content) # <<>>
                          THEN Append(textParts, extractContent(line.content))
                          ELSE textParts
  /\ UNCHANGED <<parsed, conversation, cvars, mvars, tvars, xvars>>

NoConversation == [id |-> Null]

\* The object returned at the end of parseConversation
ConversationOf(msgs, c, sid, name, latest, parts) ==
  [id |-> FilePath,
   filePath |-> FilePath,
   projectPath |-> IF c # <<>> THEN c ELSE FallbackProjectName,
   projectName |-> getShortProjectName(IF c # <<>> THEN c ELSE FallbackProjectName),
   sessionId |-> IF sid # "" THEN sid ELSE FileStem,
   sessionName |-> name,
   messages |-> msgs,
   fullText |-> JoinSpace(parts),
   timestamp |-> IF latest # <<>> THEN latest ELSE NowISO,
   messageCount |-> Len(msgs)]

\* The end of the file: the loop ends and the function returns
EndOfFile ==
  /\ ~parsed
  /\ parsed' = TRUE
  /\ conversation' =
       IF Len(messages) = 0 THEN NoConversation
       ELSE ConversationOf(messages, cwd, sessionId, sessionName,
                           latestTimestamp, textParts)
  /\ UNCHANGED <<lines, lineNumber, messages, sessionId, sessionName,
                 latestTimestamp, cwd, textParts, pendingToolUses, cvars, mvars, tvars, xvars>>

----------------------------------------------------------------------------
(* Idle values of the groups of variables: a specification of one part of *)
(* the program leaves the other parts idle.                               *)

ClassifierIdle ==
  /\ raw = NullRaw
  /\ messageContent = NoContent
  /\ pendingArg = NoPending
  /\ result = NoResult
  /\ classified = FALSE

ParserIdle ==
  /\ lines = <<>>
  /\ lineNumber = 0
  /\ messages = <<>>
  /\ sessionId = ""
  /\ sessionName = ""
  /\ latestTimestamp = <<>>
  /\ cwd = <<>>
  /\ textParts = <<>>
  /\ pendingToolUses = NoPending
  /\ parsed = FALSE
  /\ conversation = NoConversation

TextIdle ==
  /\ rawText = <<>>
  /\ cleaned = <<>>
  /\ previous = <<>>
  /\ passes = 0

Tasks == 1..MaxRebuilds

PreviewIdle ==
  /\ docText = <<>>
  /\ docQuery = <<>>
  /\ preview = <<>>
  /\ previewed = FALSE

DecodeIdle ==
  /\ originalPath = <<>>
  /\ projectDirName = <<>>
  /\ decodedPath = <<>>
  /\ decodeStage = 0

\* No conversation is selected: ConversationView is not mounted
NoneDisplayed == [id |-> 0, messages |-> <<>>, obj |-> 0]

ViewIdle ==
  /\ displayed = NoneDisplayed
  /\ currentMessageIndex = 0
  /\ chatSearchOpen = FALSE
  /\ chatSearchQuery = <<>>
  /\ currentMatchIndex = 0
  /\ committed = [id |-> 0, messages |-> <<0, 0>>, query |-> <<>>,
                  matchIndex |-> 0, matchCount |-> 0]

ExtraIdle ==
  /\ earlier = <<>>
  /\ rescans = [t \in Tasks |-> 0]
  /\ PreviewIdle
  /\ DecodeIdle
  /\ ViewIdle

\* The reply of the handler that ran last, when it was a reader
NoReply == [op |-> "none"]

MainIdle ==
  /\ ready = FALSE
  /\ disk = <<>>
  /\ diskChanges = 0
  /\ scanner = 0
  /\ indexer = 0
  /\ conversationsCache = [t \in Tasks |-> {}]
  /\ projects = [t \in Tasks |-> {}]
  /\ documents = [t \in Tasks |-> {}]
  /\ pc = [t \in Tasks |-> "idle"]
  /\ projectDirs = [t \in Tasks |-> <<>>]
  /\ jsonlFiles = [t \in Tasks |-> <<>>]
  /\ conversations = [t \in Tasks |-> <<>>]
  /\ snapshot = [t \in Tasks |-> <<>>]
  /\ completed = 0
  /\ prevGen = {}
  /\ lastReply = NoReply
  /\ indexReadySent = 0
  /\ rebuildReplied = 0
  /\ index = [t \in Tasks |-> <<>>]

----------------------------------------------------------------------------
(* The classifier applied to one payload *)

InitClassify ==
  /\ \/ \E K \in KeySets : \E f \in ObjectsOver(K) : raw = ObjectRaw(f)
     \/ raw \in {StringRaw, NullRaw}
  /\ messageContent \in SiblingContents
  /\ pendingArg \in PendingMaps
  /\ result = NoResult
  /\ classified = FALSE
  /\ ParserIdle
  /\ MainIdle
  /\ TextIdle
  /\ ExtraIdle

Classify ==
  /\ ~classified
  /\ result' = classifyToolResult(raw, messageContent, pendingArg)
  /\ classified' = TRUE
  /\ UNCHANGED <<raw, messageContent, pendingArg, pvars, mvars, tvars, xvars>>

NextClassify == Classify

SpecClassify == InitClassify /\ [][NextClassify]_vars

----------------------------------------------------------------------------
(* Properties of the classifier *)

DocumentedOrder ==
  <<"edit", "write", "read", "bash", "grep", "glob", "taskAgent",
    "taskCreate", "taskUpdate", "generic">>

Matches(r, t) ==
  CASE t = "edit" -> IsEdit(r)
    [] t = "write" -> IsWrite(r)
    [] t = "read" -> IsRead(r)
    [] t = "bash" -> IsBash(r)
    [] t = "grep" -> IsGrep(r)
    [] t = "glob" -> IsGlob(r)
    [] t = "taskAgent" -> IsTaskAgent(r)
    [] t = "taskCreate" -> IsTaskCreate(r)
    [] t = "taskUpdate" -> IsTaskUpdate(r)
    [] OTHER -> TRUE

FirstMatch(r) ==
  LET i == CHOOSE n \in 1..Len(DocumentedOrder) :
             /\ Matches(r, DocumentedOrder[n])
             /\ \A m \in 1..(n - 1) : ~Matches(r, DocumentedOrder[m])
  IN DocumentedOrder[i]

MatchCount(r) ==
  Cardinality({n \in 1..(Len(DocumentedOrder) - 1) : Matches(r, DocumentedOrder[n])})

C4_BashWhateverElse ==
  (classified /\ raw.kind = "object" /\ Has(raw, "stdout") /\ Has(raw, "stderr"))
    => result.type = "bash"

\* C4 (amended): a payload with both the stdout and the stderr key that
\* matches none of the edit, write and read predicates is classified bash,
\* whatever else it carries.
C4_BashUnlessEarlierShape ==
  (/\ classified /\ raw.kind = "object"
   /\ Has(raw, "stdout") /\ Has(raw, "stderr")
   /\ ~IsEdit(raw) /\ ~IsWrite(raw) /\ ~IsRead(raw))
    => result.type = "bash"

\* a payload with stdout, stderr and the glob keys has been classified bash
C4_Witness ==
  /\ classified /\ raw.kind = "object"
  /\ Has(raw, "stdout") /\ Has(raw, "stderr")
  /\ Has(raw, "filenames") /\ Has(raw, "numFiles")
  /\ result.type = "bash"

SpecificShape(r) == \E n \in 1..(Len(DocumentedOrder) - 1) : Matches(r, DocumentedOrder[n])

\* C5: the classifier returns null exactly when the payload is not an
\* object; every object gets a variant, and an object of no specific shape
\* gets the generic variant carrying the payload.
C5_NullOnlyForNonObject ==
  classified =>
    /\ (result.type = "null") <=> (raw.kind # "object")
    /\ (raw.kind = "object") => result.type \in
         {DocumentedOrder[n] : n \in 1..Len(DocumentedOrder)}
    /\ (raw.kind = "object" /\ ~SpecificShape(raw)) =>
         (result.type = "generic" /\ result.data = raw)

\* an object with keys of no specific shape has been classified generic
C5_Witness ==
  /\ classified /\ raw.kind = "object"
  /\ Cardinality(DOMAIN raw.fields) >= 2
  /\ ~SpecificShape(raw)
  /\ result.type = "generic" /\ result.data = raw

\* A valid edit payload: a hunk array, an old string and a file path
ValidEditShape(r) ==
  /\ r.kind = "object"
  /\ Has(r, "structuredPatch") /\ ArrayLen(r.fields["structuredPatch"]) >= 0
  /\ Has(r, "oldString")
  /\ Has(r, "filePath") /\ r.fields["filePath"] # ""

\* C6: a valid edit-shaped payload is classified edit, with the payload's
\* filePath, oldString and newString and as many hunks as the payload has.
C6_EditPreserved ==
  (classified /\ ValidEditShape(raw)) =>
    /\ result.type = "edit"
    /\ result.filePath = raw.fields["filePath"]
    /\ result.oldString = raw.fields["oldString"]
    /\ result.newString = Get(raw, "newString")
    /\ ArrayLen(result.structuredPatch) = ArrayLen(raw.fields["structuredPatch"])

\* an edit payload with two hunks and a new string has been classified
C6_Witness ==
  /\ classified /\ ValidEditShape(raw)
  /\ Has(raw, "newString")
  /\ ArrayLen(raw.fields["structuredPatch"]) = 2
  /\ result.type = "edit"
  /\ ArrayLen(result.structuredPatch) = 2

----------------------------------------------------------------------------
(* The lines a transcript is made of *)

TextA == <<"a">>
TagOnly == <<"<", "T", ">", "x", "<", "/", "T", ">">>
BashPayload == ObjectRaw([stdout |-> "", stderr |-> ""])

UserContents ==
  {StrContent(TextA), StrContent(TagOnly), NoContent,
   ArrContent(<<ToolResultItem("t1", <<>>)>>),
   ArrContent(<<ToolResultItem("t1", <<"r">>)>>),
   ArrContent(<<TextItem(TextA), ToolResultItem("t1", <<>>)>>)}

AssistantContents ==
  {StrContent(TextA),
   ArrContent(<<TextItem(TextA), ToolUseItem("t1", "Bash")>>),
   ArrContent(<<ToolUseItem("t1", "Bash")>>),
   ArrContent(<<ToolResultItem("t1", <<>>)>>)}

\* Lines that differ in record type, isMeta, content and toolUseResult
MessageLines ==
  {BlankLine, MalformedLine,
   JsonLine(<<>>, "", "", <<1>>, "system", FALSE, StrContent(TextA), AbsentRaw),
   JsonLine(<<>>, "", "", <<1>>, "user", TRUE, StrContent(TextA), AbsentRaw),
   JsonLine(<<>>, "", "", <<1>>, "assistant", FALSE,
            ArrContent(<<ToolResultItem("t1", <<>>)>>), BashPayload)}
  \cup {JsonLine(<<>>, "", "", <<1>>, "user", FALSE, c, t) :
          c \in UserContents, t \in {AbsentRaw, BashPayload}}
  \cup {JsonLine(<<>>, "", "", <<1>>, "assistant", FALSE, c, AbsentRaw) :
          c \in AssistantContents}

CwdA == <<"u", "a">>
CwdB == <<"u", "b", "c", "d">>
Timestamps == {<<>>, <<1>>, <<1, 0>>, <<2>>}

\* Lines that differ in cwd, sessionId, slug and timestamp, on records that
\* produce a message and on records that do not
MetaLines ==
  {BlankLine, MalformedLine,
   JsonLine(<<>>, "", "", <<2>>, "user", TRUE, StrContent(TextA), AbsentRaw),
   JsonLine(CwdB, "sB", "nB", <<2>>, "user", TRUE, StrContent(TextA), AbsentRaw),
   JsonLine(CwdA, "sA", "nA", <<1>>, "user", FALSE, StrContent(TextA), AbsentRaw),
   JsonLine(CwdB, "sB", "nB", <<2>>, "user", FALSE, StrContent(TextA), AbsentRaw),
   JsonLine(CwdA, "sA", "nA", <<1>>, "system", FALSE, NoContent, AbsentRaw),
   JsonLine(CwdB, "sB", "nB", <<2>>, "system", FALSE, NoContent, AbsentRaw)}
  \cup {JsonLine(<<>>, "", "", ts, ty, FALSE, StrContent(TextA), AbsentRaw) :
          ts \in Timestamps, ty \in {"user", "system"}}
  \cup {JsonLine(c, "", "", <<>>, "system", FALSE, NoContent, AbsentRaw) : c \in {CwdA, CwdB}}
  \cup {JsonLine(<<>>, sid, "", <<>>, "system", FALSE, NoContent, AbsentRaw) : sid \in {"sA", "sB"}}
  \cup {JsonLine(<<>>, "", sl, <<>>, "system", FALSE, NoContent, AbsentRaw) : sl \in {"nA", "nB"}}

InitParse == ClassifierIdle /\ ParserIdle /\ MainIdle /\ TextIdle /\ ExtraIdle

ReadMessageLine == \E line \in MessageLines : ParseLine(line)

ReadMetaLine == \E line \in MetaLines : ParseLine(line)

NextParse == ReadMessageLine \/ EndOfFile

SpecParse == InitParse /\ [][NextParse]_vars

NextParseMeta == ReadMetaLine \/ EndOfFile

SpecParseMeta == InitParse /\ [][NextParseMeta]_vars

\* Records that register tool invocations and records that carry a
\* payload classified as generic, with sibling contents that refer to them
GenericPayload == ObjectRaw([message |-> "m"])
OtherPayload == ObjectRaw([other |-> "x"])

ToolLines ==
  {JsonLine(<<>>, "", "", <<1>>, "assistant", FALSE,
            ArrContent(<<ToolUseItem("t1", n)>>), AbsentRaw) : n \in {"Bash", "Edit"}}
  \cup {JsonLine(<<>>, "", "", <<1>>, "assistant", FALSE,
                 ArrContent(<<TextItem(TextA), ToolUseItem("t2", "Read")>>), AbsentRaw),
        JsonLine(<<>>, "", "", <<1>>, "assistant", TRUE,
                 ArrContent(<<ToolUseItem("t2", "Read")>>), AbsentRaw),
        JsonLine(<<>>, "", "", <<1>>, "user", FALSE,
                 ArrContent(<<ToolResultItem("t1", <<>>)>>), OtherPayload)}
  \cup {JsonLine(<<>>, "", "", <<1>>, "user", FALSE, c, GenericPayload) :
          c \in {ArrContent(<<ToolResultItem("t1", <<>>)>>),
                 ArrContent(<<ToolResultItem("t2", <<>>)>>),
                 ArrContent(<<ToolResultItem("", <<>>), ToolResultItem("t1", <<>>)>>),
                 ArrContent(<<TextItem(TextA), ToolResultItem("t1", <<>>)>>),
                 ArrContent(<<ToolResultItem("t2", <<>>), ToolResultItem("t1", <<>>)>>),
                 ArrContent(<<ToolUseItem("t1", "Glob"), ToolResultItem("t1", <<>>)>>),
                 StrContent(TextA)}}

ReadToolLine == \E line \in ToolLines : ParseLine(line)

\* scanAll goes on to the next file: parseConversation is called again
\* and starts with new accumulators
ParseNextFile ==
  /\ parsed
  /\ Len(earlier) < MaxFilesParsed - 1
  /\ earlier' = Append(earlier, pendingToolUses)
  /\ pendingToolUses' = NewPendingMap(pendingToolUses)
  /\ lines' = <<>>
  /\ lineNumber' = 0
  /\ messages' = <<>>
  /\ sessionId' = ""
  /\ sessionName' = ""
  /\ latestTimestamp' = <<>>
  /\ cwd' = <<>>
  /\ textParts' = <<>>
  /\ parsed' = FALSE
  /\ conversation' = NoConversation
  /\ UNCHANGED <<cvars, mvars, tvars, rescans, gvars, dvars, nvars>>

NextParseTools == ReadToolLine \/ EndOfFile \/ ParseNextFile

SpecParseTools == InitParse /\ [][NextParseTools]_vars

\* Records that differ in message.model, message.stop_reason, gitBranch,
\* version and message.usage, with and without a tool invocation
FieldSettings ==
  {<<Undefined, Undefined, Undefined, Undefined, NoUsage>>,
   <<"opus", Undefined, Undefined, Undefined, NoUsage>>,
   <<"", Undefined, Undefined, Undefined, NoUsage>>,
   <<Undefined, "end_turn", Undefined, Undefined, NoUsage>>,
   <<Undefined, Null, Undefined, Undefined, NoUsage>>,
   <<Undefined, Undefined, "main", Undefined, NoUsage>>,
   <<Undefined, Undefined, Undefined, "1.0", NoUsage>>,
   <<Undefined, Undefined, Undefined, Undefined, Usage(0, 0, 0, 0)>>,
   <<Undefined, Undefined, Undefined, Undefined, Usage(5, 0, 0, 0)>>,
   <<Undefined, Undefined, Undefined, Undefined, Usage(0, 7, 0, 0)>>,
   <<Undefined, Undefined, Undefined, Undefined, Usage(0, 0, 3, 2)>>,
   <<"opus", Null, "main", "1.0", Usage(5, 7, 0, 0)>>}

FieldLines ==
  {WithRecordFields(JsonLine(<<>>, "", "", <<1>>, ty, FALSE, c, AbsentRaw),
                    f[1], f[2], f[3], f[4], f[5]) :
     ty \in {"assistant"},
     c \in {StrContent(TextA), ArrContent(<<TextItem(TextA), ToolUseItem("t1", "Bash")>>)},
     f \in FieldSettings}

ReadFieldLine == \E line \in FieldLines : ParseLine(line)

NextParseFields == ReadFieldLine \/ EndOfFile

SpecParseFields == InitParse /\ [][NextParseFields]_vars

----------------------------------------------------------------------------
(* Properties of the parser *)

JsonIndices == {i \in 1..Len(lines) : lines[i].kind = "json"}

\* A content array made of tool-result references only
AllToolResultRefs(content) ==
  /\ content.kind = "array"
  /\ content.items # <<>>
  /\ \A i \in 1..Len(content.items) : content.items[i].type = "tool_result"

CarriesToolUseResult(line) == line.toolUseResult.kind \in {"object", "string"}

\* A line that produces a message: a JSON record of type user or assistant,
\* not isMeta, with display text or flagged as a tool-result message
Eligible(line) ==
  /\ line.kind = "json"
  /\ line.type \in {"user", "assistant"}
  /\ ~line.isMeta
  /\ \/ extractContent(line.content) # <<>>
     \/ (line.type = "user" /\ CarriesToolUseResult(line) /\ AllToolResultRefs(line.content))

EligibleIndices == {i \in 1..Len(lines) : Eligible(lines[i])}

C10_ToolResultOnlyRetained ==
  \A i \in JsonIndices :
    (/\ lines[i].type \in {"user", "assistant"} /\ ~lines[i].isMeta
     /\ AllToolResultRefs(lines[i].content))
    => \E k \in 1..Len(messages) : messages[k].lineNumber = i

NoStringContent(content) ==
  \A i \in 1..Len(content.items) : content.items[i].text = <<>>

\* C10 (amended): every user record that is not isMeta, carries a
\* toolUseResult payload and whose content array is made of tool-result
\* references only has a message, flagged isToolResult; its display content
\* is empty when no reference carries string content.
C10_ToolResultMessageRetained ==
  \A i \in JsonIndices :
    (/\ lines[i].type = "user" /\ ~lines[i].isMeta
     /\ CarriesToolUseResult(lines[i])
     /\ AllToolResultRefs(lines[i].content))
    => \E k \in 1..Len(messages) :
         /\ messages[k].lineNumber = i
         /\ messages[k].isToolResult
         /\ NoStringContent(lines[i].content) => messages[k].content = <<>>

\* a tool-result-only user record without text has been kept, and counted
C10_Witness ==
  /\ parsed
  /\ \E i \in JsonIndices :
       /\ lines[i].type = "user" /\ ~lines[i].isMeta
       /\ CarriesToolUseResult(lines[i])
       /\ AllToolResultRefs(lines[i].content)
       /\ NoStringContent(lines[i].content)
       /\ \E k \in 1..Len(messages) :
            messages[k].lineNumber = i /\ messages[k].content = <<>>
  /\ conversation.messageCount = Len(messages)
  /\ conversation.messageCount >= 2

\* The timestamps carried by the JSON lines of the file
SeenTimestamps == {lines[i].timestamp : i \in JsonIndices} \ {<<>>}

IsMaximum(t, S) == t \in S /\ \A u \in S : ~StrGreater(u, t)

\* C8 (as stated): the timestamp of a parsed conversation is the maximum
\* timestamp over the JSON lines of the file and never anything else.
C8_TimestampIsMaximum ==
  (parsed /\ conversation # NoConversation) =>
    IsMaximum(conversation.timestamp, SeenTimestamps)

\* C8 (amended): when some JSON line of the file carries a timestamp, the
\* timestamp of the parsed conversation is the maximum over all JSON lines,
\* message or not; when none does it is the time of the parse.
C8_TimestampIsMaximumOrNow ==
  (parsed /\ conversation # NoConversation) =>
    IF SeenTimestamps # {}
    THEN IsMaximum(conversation.timestamp, SeenTimestamps)
    ELSE conversation.timestamp = NowISO

\* the maximum came from a line that produced no message, before the last
\* message
C8_Witness ==
  /\ parsed /\ conversation # NoConversation
  /\ Len(lines) = 3
  /\ ~Eligible(lines[2]) /\ lines[2].kind = "json"
  /\ Eligible(lines[3])
  /\ conversation.timestamp = lines[2].timestamp
  /\ StrGreater(lines[2].timestamp, lines[3].timestamp)
  /\ StrGreater(lines[2].timestamp, lines[1].timestamp)
  /\ lines[3].timestamp # <<>>

\* The first non-empty value of a field over the JSON lines, or empty
FirstObserved(field, empty) ==
  LET S == {i \in JsonIndices : lines[i][field] # empty}
  IN IF S = {} THEN empty
     ELSE lines[CHOOSE i \in S : \A j \in S : i <= j][field]

\* C9: cwd, sessionId and slug each hold the first non-empty value seen on
\* a JSON line of any record type, a later line never replaces it, and the
\* conversation's projectPath, sessionId and sessionName are those values.
C9_FirstWins ==
  /\ cwd = FirstObserved("cwd", <<>>)
  /\ sessionId = FirstObserved("sessionId", "")
  /\ sessionName = FirstObserved("slug", "")
  /\ (parsed /\ conversation # NoConversation) =>
       /\ FirstObserved("cwd", <<>>) # <<>> =>
            conversation.projectPath = FirstObserved("cwd", <<>>)
       /\ FirstObserved("sessionId", "") # "" =>
            conversation.sessionId = FirstObserved("sessionId", "")
       /\ conversation.sessionName = FirstObserved("slug", "")

\* two lines carried different values, the first on a record that is not a
\* message, and the conversation has the first
C9_Witness ==
  /\ parsed /\ conversation # NoConversation
  /\ Len(lines) = 3
  /\ lines[1].kind = "json" /\ lines[1].type = "system"
  /\ lines[1].cwd = CwdA /\ lines[1].sessionId = "sA" /\ lines[1].slug = "nA"
  /\ lines[2].cwd = CwdB /\ lines[2].sessionId = "sB" /\ lines[2].slug = "nB"
  /\ conversation.projectPath = CwdA
  /\ conversation.sessionId = "sA"
  /\ conversation.sessionName = "nA"

\* The tool invocations a file registers: those of its user and assistant
\* records that are not isMeta, with a name and an id.  An invocation is
\* written <<line, item>>.
InvocationsUpTo(n) ==
  {<<j, q>> \in (1..n) \X (1..3) :
     /\ lines[j].kind = "json"
     /\ lines[j].type \in {"user", "assistant"} /\ ~lines[j].isMeta
     /\ lines[j].content.kind = "array"
     /\ q <= Len(lines[j].content.items)
     /\ lines[j].content.items[q].type = "tool_use"
     /\ lines[j].content.items[q].name # ""
     /\ lines[j].content.items[q].id # ""}

IdOfInvocation(v) == lines[v[1]].content.items[v[2]].id
NameOfInvocation(v) == lines[v[1]].content.items[v[2]].name
Later(v, w) == v[1] > w[1] \/ (v[1] = w[1] /\ v[2] > w[2])

\* The tool-result reference the name is resolved through: the first one
\* of the sibling content array
FirstReference(content) ==
  IF content.kind # "array" THEN {}
  ELSE {i \in 1..Len(content.items) :
          /\ content.items[i].type = "tool_result"
          /\ \A j \in 1..(i - 1) : content.items[j].type # "tool_result"}

\* The name the generic result of line n is to carry
ExpectedToolName(n) ==
  LET c == lines[n].content
      pendingOf(id) == {v \in InvocationsUpTo(n) : IdOfInvocation(v) = id}
      latest(id) == CHOOSE v \in pendingOf(id) : \A w \in pendingOf(id) : ~Later(w, v)
  IN IF FirstReference(c) = {} THEN "unknown"
     ELSE LET i == CHOOSE x \in FirstReference(c) : TRUE IN
          IF c.items[i].id = "" \/ pendingOf(c.items[i].id) = {} THEN "unknown"
          ELSE NameOfInvocation(latest(c.items[i].id))

GenericMessages ==
  {k \in 1..Len(messages) :
     /\ messages[k].metadata.toolResults # <<>>
     /\ messages[k].metadata.toolResults[1].type = "generic"}

SomeFieldNonEmpty(md) ==
  \/ md.model \notin {Undefined, Null, ""}
  \/ md.stopReason \notin {Undefined, Null, ""}
  \/ md.gitBranch \notin {Undefined, Null, ""}
  \/ md.version \notin {Undefined, Null, ""}
  \/ md.inputTokens # 0 \/ md.outputTokens # 0
  \/ md.cacheReadTokens # 0 \/ md.cacheCreationTokens # 0
  \/ md.toolUses # <<>> \/ md.toolUseBlocks # <<>> \/ md.toolResults # <<>>

\* C26: a message has a metadata object if and only if at least one field
\* of it is not empty; no message has a metadata object whose every field
\* is empty or null.
C26_MetadataSparse ==
  \A k \in 1..Len(messages) :
    messages[k].metadata.present <=> SomeFieldNonEmpty(messages[k].metadata)

----------------------------------------------------------------------------
(* cleanContent on its own.  The input is a concatenation of at most       *)
(* MaxChunks pieces: whole and broken control tags, a letter, a space, a   *)
(* tab and a newline.                                                      *)

Chunks ==
  {<<"<", "T", ">">>, <<"<", "/", "T", ">">>, <<"<", "T">>, <<">">>,
   <<"a">>, <<" ">>, <<"\t">>, <<"\n">>}

RECURSIVE Flatten(_)
Flatten(cs) == IF cs = <<>> THEN <<>> ELSE cs[1] \o Flatten(Tail(cs))

InitClean ==
  /\ \E n \in 0..MaxChunks : \E cs \in [1..n -> Chunks] : rawText = Flatten(cs)
  /\ cleaned = <<>>
  /\ previous = <<>>
  /\ passes = 0
  /\ ClassifierIdle
  /\ ParserIdle
  /\ MainIdle
  /\ ExtraIdle

\* cleanContent(text), then cleanContent of what it returned
CleanContent ==
  /\ passes < 2
  /\ cleaned' = cleanContent(IF passes = 0 THEN rawText ELSE cleaned)
  /\ previous' = cleaned
  /\ passes' = passes + 1
  /\ UNCHANGED <<rawText, cvars, pvars, mvars, xvars>>

NextClean == CleanContent

SpecClean == InitClean /\ [][NextClean]_vars

\* C12: cleanContent is idempotent: applied to its own output it returns
\* that output unchanged.
C12_Idempotent == passes = 2 => cleaned = previous

\* The lines of a text (split at newlines)
RECURSIVE SplitLines(_, _)
SplitLines(s, cur) ==
  IF s = <<>> THEN <<cur>>
  ELSE IF s[1] = "\n" THEN <<cur>> \o SplitLines(Tail(s), <<>>)
  ELSE SplitLines(Tail(s), Append(cur, s[1]))

IsBlankLine(l) == \A i \in 1..Len(l) : IsSpace(l[i])

\* C13: the output of cleanContent has no two consecutive blank lines (lines
\* without a non-whitespace character), no leading or trailing whitespace
\* and no two consecutive horizontal whitespace characters.
C13_OutputShape ==
  passes >= 1 =>
    LET ls == SplitLines(cleaned, <<>>) IN
      /\ \A i \in 1..(Len(ls) - 1) : ~(IsBlankLine(ls[i]) /\ IsBlankLine(ls[i + 1]))
      /\ (cleaned # <<>> => ~IsSpace(cleaned[1]) /\ ~IsSpace(cleaned[Len(cleaned)]))
      /\ \A i \in 1..(Len(cleaned) - 1) : ~(IsHSpace(cleaned[i]) /\ IsHSpace(cleaned[i + 1]))

----------------------------------------------------------------------------
(* The main process.                                                       *)
(* Every call of initializeSearch makes a new scanner and a new indexer    *)
(* object; the objects made by the n-th call are written n (0 is null).    *)
(* A transcript file is written by its number; its directory, project path *)
(* and timestamp are fixed, what the disk holds for it is not.             *)

Files == {1, 2, 3}
DirNames == <<"d1", "d2">>
DirOf == <<"d1", "d1", "d2">>
ProjectPathOf == <<2, 2, 1>>
TimestampOf == <<1, 3, 2>>
FileStatus == {"absent", "valid", "empty", "nomsg"}

\* What a transcript file of each status holds, line by line: a "valid" file
\* has a user message, a "nomsg" file only lines that produce no message
TranscriptOf(st) ==
  CASE st = "valid" ->
         <<JsonLine(CwdA, "sA", "nA", <<1>>, "user", FALSE, StrContent(TextA), AbsentRaw)>>
    [] st = "nomsg" ->
         <<JsonLine(CwdA, "sA", "nA", <<1>>, "user", TRUE, StrContent(TextA), AbsentRaw),
           MalformedLine,
           JsonLine(CwdA, "sA", "nA", <<2>>, "system", FALSE, StrContent(TextA), AbsentRaw),
           JsonLine(CwdA, "sA", "nA", <<2>>, "user", FALSE, StrContent(TagOnly), AbsentRaw)>>
    [] OTHER -> <<>>

\* messages.length when parseConversation has read the lines ls
MessageCountOf(ls) ==
  Len(SelectSeq(ls, LAMBDA l : l.kind = "json" /\ KeepsMessage(l)))

\* if (fileStats.size === 0) continue ... if (conversation &&
\* conversation.messages.length > 0): the file adds a Conversation
\* Faulty variant: a file without an eligible message adds one too.
Contributes_zeroMessages(st) == st # "empty"

\* Faulty variant: a file of size 0 adds one too.
Contributes_emptyFile(st) == st = "empty" \/ MessageCountOf(TranscriptOf(st)) > 0

Contributes(st) == st # "empty" /\ MessageCountOf(TranscriptOf(st)) > 0

Range(q) == {q[i] : i \in 1..Len(q)}

\* The elements of a set of numbers in increasing order
RECURSIVE Ascending(_)
Ascending(S) ==
  IF S = {} THEN <<>>
  ELSE LET m == CHOOSE x \in S : \A y \in S : x <= y
       IN <<m>> \o Ascending(S \ {m})

\* Array.prototype.sort with (a, b) => time(b) - time(a): stable, descending
RECURSIVE InsertDesc(_, _)
InsertDesc(sorted, f) ==
  IF sorted = <<>> THEN <<f>>
  ELSE IF TimestampOf[sorted[1]] >= TimestampOf[f]
       THEN <<sorted[1]>> \o InsertDesc(Tail(sorted), f)
       ELSE <<f>> \o sorted

\* Faulty variant: the list is returned in scan order.
SortDesc_scanOrder(q) == q

RECURSIVE SortDesc(_)
SortDesc(q) ==
  IF q = <<>> THEN <<>>
  ELSE InsertDesc(SortDesc(SubSeq(q, 1, Len(q) - 1)), q[Len(q)])

----------------------------------------------------------------------------
(* The search indexer.  A Conversation is written by the number of its     *)
(* file; what the index stores of it (projectName, fullText, timestamp) is *)
(* fixed by that number.  A text is the sequence of its words and a word   *)
(* is one letter; a project name and a filter are strings of characters.   *)

ProjectSegments == <<CwdA, CwdB>>
FullTextOf == <<<<"x">>, <<"x", "y">>, <<"x", "a">>>>

\* conv.sessionId of each Conversation, one word
SessionIdOf == <<<<"s">>, <<"t">>, <<"v">>>>

\* Array.prototype.join('/')
RECURSIVE JoinSlash(_)
JoinSlash(parts) ==
  IF parts = <<>> THEN <<>>
  ELSE IF Len(parts) = 1 THEN <<parts[1]>>
  ELSE <<parts[1], "/">> \o JoinSlash(Tail(parts))

\* conv.projectName
ProjectNameOf(f) == JoinSlash(getShortProjectName(ProjectSegments[ProjectPathOf[f]]))

\* conv.projectPath as a string: the absolute path of the project
ProjectPathString(p) == <<"/">> \o JoinSlash(ProjectSegments[p])

\* String.prototype.includes
Includes(str, sub) ==
  \E i \in 0..(Len(str) - Len(sub)) : SubSeq(str, i + 1, i + Len(sub)) = sub

\* projectFilter && !doc.projectName.includes(projectFilter) is false
PassesFilter(f, projectFilter) ==
  projectFilter = <<>> \/ Includes(ProjectNameOf(f), projectFilter)

Take(q, n) == SubSeq(q, 1, IF n < Len(q) THEN n ELSE Len(q))

\* index.add(doc) of the text engine: a document is registered under its
\* id, and one whose id is registered already is taken out and added again
IndexAdd(reg, id) == Append(SelectSeq(reg, LAMBDA x : x # id), id)

\* buildIndex: the loop over the conversations, for the engine
RECURSIVE IndexAddAll(_, _)
IndexAddAll(reg, list) ==
  IF list = <<>> THEN reg ELSE IndexAddAll(IndexAdd(reg, list[1]), Tail(list))

\* The words of a query (the engine splits it at whitespace)
QueryTerms(query) == {query[i] : i \in {j \in 1..Len(query) : ~IsSpace(query[j])}}

\* The words the engine has indexed for a field of a document
FieldWords(f, field) ==
  IF field = "content" THEN Range(FullTextOf[f])
  ELSE Range(getShortProjectName(ProjectSegments[ProjectPathOf[f]]))

\* index.search(query, {limit, enrich: true}): for each indexed field the
\* ids of at most limit registered documents that have every word of the
\* query in that field, in the order they were added; a limit of 0 is read
\* as the engine's default, which no index of this model reaches; a field
\* without a match is left out
EngineSearch(reg, query, limit) ==
  LET hits(field) ==
        SelectSeq(reg, LAMBDA f : QueryTerms(query) \subseteq FieldWords(f, field))
      cut(q) == IF limit = 0 THEN q ELSE Take(q, limit)
      fields == <<cut(hits("content")), cut(hits("projectName"))>>
  IN SelectSeq(fields, LAMBDA r : r # <<>>)

\* getRecent: filter, sort by timestamp descending, slice(0, limit)
\* Faulty variant: the slice is taken before the filter.
getRecent_sliceFirst(d, limit, projectFilter) ==
  SelectSeq(Take(SortDesc(Ascending(d)), limit), LAMBDA f : PassesFilter(f, projectFilter))

getRecent(d, limit, projectFilter) ==
  Take(SortDesc(Ascending({f \in d : PassesFilter(f, projectFilter)})), limit)

\* the inner loop of search over the items of one field result
RECURSIVE ScanItems(_, _, _, _, _, _)
ScanItems(items, seen, out, d, limit, projectFilter) ==
  IF items = <<>> THEN [seen |-> seen, out |-> out]
  ELSE LET id == items[1] IN
    IF id \in seen
    THEN ScanItems(Tail(items), seen, out, d, limit, projectFilter)
    ELSE IF id \notin d \/ ~PassesFilter(id, projectFilter)
    THEN ScanItems(Tail(items), seen \cup {id}, out, d, limit, projectFilter)
    ELSE IF Len(out) + 1 >= limit
    THEN [seen |-> seen \cup {id}, out |-> Append(out, id)]
    ELSE ScanItems(Tail(items), seen \cup {id}, Append(out, id), d, limit, projectFilter)

\* the outer loop of search over the field results
RECURSIVE ScanFields(_, _, _, _, _, _)
ScanFields(results, seen, out, d, limit, projectFilter) ==
  IF results = <<>> THEN out
  ELSE LET r == ScanItems(results[1], seen, out, d, limit, projectFilter) IN
    IF Len(r.out) >= limit THEN r.out
    ELSE ScanFields(Tail(results), r.seen, r.out, d, limit, projectFilter)

\* SearchIndexer.search over the documents d and the engine's register reg;
\* a result is written by its id
search(d, reg, query, limit, projectFilter) ==
  IF Trim(query) = <<>> THEN getRecent(d, limit, projectFilter)
  ELSE ScanFields(EngineSearch(reg, query, limit * 2), {}, <<>>, d, limit, projectFilter)

getDocumentCount(d) == Cardinality(d)

\* String.prototype.toLowerCase over the letters of this model
Lower(c) == CASE c = "X" -> "x" [] c = "Y" -> "y" [] OTHER -> c
toLowerCase(str) == [i \in 1..Len(str) |-> Lower(str[i])]

\* String.prototype.indexOf: the index, from 0, of the first occurrence, or -1
indexOf(str, sub) ==
  LET at == {i \in 0..(Len(str) - Len(sub)) : SubSeq(str, i + 1, i + Len(sub)) = sub}
  IN IF at = {} THEN -1 ELSE CHOOSE i \in at : \A j \in at : i <= j

\* String.prototype.slice(from, to) for 0 <= from <= to <= length
Slice(str, from, to) == SubSeq(str, from + 1, to)

Ellipsis == <<".", ".", ".">>

truncateText(str, maxLength) ==
  IF Len(str) <= maxLength THEN str ELSE Slice(str, 0, maxLength) \o Ellipsis

ContextBefore == 80
ContextAfter == 120
PreviewLength == 200

\* Faulty variant: the leading ellipsis is added when the window starts at
\* the first character, too.
generatePreview_leadingAtEdge(str, query) ==
  LET idx == indexOf(toLowerCase(str), toLowerCase(query))
      start == IF idx - ContextBefore > 0 THEN idx - ContextBefore ELSE 0
      end == IF idx + Len(query) + ContextAfter < Len(str)
             THEN idx + Len(query) + ContextAfter ELSE Len(str)
  IN IF idx = -1 THEN truncateText(str, PreviewLength)
     ELSE (IF idx >= ContextBefore THEN Ellipsis ELSE <<>>)
            \o Slice(str, start, end)
            \o (IF end < Len(str) THEN Ellipsis ELSE <<>>)

generatePreview(str, query) ==
  LET idx == indexOf(toLowerCase(str), toLowerCase(query))
      start == IF idx - ContextBefore > 0 THEN idx - ContextBefore ELSE 0
      end == IF idx + Len(query) + ContextAfter < Len(str)
             THEN idx + Len(query) + ContextAfter ELSE Len(str)
  IN IF idx = -1 THEN truncateText(str, PreviewLength)
     ELSE (IF start > 0 THEN Ellipsis ELSE <<>>)
            \o Slice(str, start, end)
            \o (IF end < Len(str) THEN Ellipsis ELSE <<>>)

\* filters?.limit || 50, where a limit that is not given is written -1
DefaultLimit == 50
LimitOrDefault(opt) == IF opt <= 0 THEN DefaultLimit ELSE opt

\* readdir of a project directory: the transcript files it holds, in order
Listing(d) == Ascending({f \in Files : DirOf[f] = d /\ disk[f] # "absent"})

InFlight(t) == pc[t] \in {"readdir", "scan"}

Init ==
  /\ ClassifierIdle
  /\ ParserIdle
  /\ TextIdle
  /\ ExtraIdle
  /\ ready = FALSE
  /\ disk \in [Files -> {"absent", "valid", "empty"}]
  /\ diskChanges = 0
  /\ scanner = 0
  /\ indexer = 0
  /\ conversationsCache = [t \in Tasks |-> {}]
  /\ projects = [t \in Tasks |-> {}]
  /\ documents = [t \in Tasks |-> {}]
  /\ pc = [t \in Tasks |-> "idle"]
  /\ projectDirs = [t \in Tasks |-> <<>>]
  /\ jsonlFiles = [t \in Tasks |-> <<>>]
  /\ conversations = [t \in Tasks |-> <<>>]
  /\ snapshot = [t \in Tasks |-> <<>>]
  /\ completed = 0
  /\ prevGen = {}
  /\ lastReply = NoReply
  /\ indexReadySent = 0
  /\ rebuildReplied = 0
  /\ index = [t \in Tasks |-> <<>>]

\* initializeSearch up to its first suspend point: new scanner and indexer,
\* scanAll clears the (new) cache and project set and awaits readdir
StartRebuild(t) ==
  /\ pc[t] = "idle"
  /\ scanner' = t
  /\ indexer' = t
  /\ conversationsCache' = [conversationsCache EXCEPT ![t] = {}]
  /\ projects' = [projects EXCEPT ![t] = {}]
  /\ conversations' = [conversations EXCEPT ![t] = <<>>]
  /\ pc' = [pc EXCEPT ![t] = "readdir"]
  /\ snapshot' = [snapshot EXCEPT ![t] = disk]
  /\ lastReply' = NoReply
  /\ UNCHANGED <<disk, diskChanges, documents, index, projectDirs, jsonlFiles,
                 completed, prevGen, indexReadySent, rebuildReplied>>

\* this.conversationsCache.clear(), this.projects.clear()
\* Faulty variant: what the scan before left is kept.
Cleared_kept(S) == S

Cleared(S) == {}

\* scanAll called again on the scanner of task t, after its scan has
\* returned: the cache and the project set are cleared and readdir awaited
Rescan(t) ==
  /\ pc[t] = "done"
  /\ rescans[t] < MaxRescans
  /\ rescans' = [rescans EXCEPT ![t] = rescans[t] + 1]
  /\ conversationsCache' = [conversationsCache EXCEPT ![t] = Cleared(conversationsCache[t])]
  /\ projects' = [projects EXCEPT ![t] = Cleared(projects[t])]
  /\ conversations' = [conversations EXCEPT ![t] = <<>>]
  /\ pc' = [pc EXCEPT ![t] = "readdir"]
  /\ snapshot' = [snapshot EXCEPT ![t] = disk]
  /\ lastReply' = NoReply
  /\ UNCHANGED <<ready, disk, diskChanges, scanner, indexer, documents, index,
                 projectDirs, jsonlFiles, completed, prevGen, indexReadySent,
                 rebuildReplied, cvars, pvars, tvars, earlier, gvars, dvars, nvars>>

\* app.whenReady: the IPC handlers are registered and the first
\* initializeSearch runs in the background
AppReady ==
  /\ ~ready
  /\ ready' = TRUE
  /\ StartRebuild(1)
  /\ UNCHANGED <<cvars, pvars, tvars, xvars>>

\* ipcMain.handle('rebuild-index'): await initializeSearch()
RebuildIndex ==
  /\ ready
  /\ \E t \in Tasks \ {1} :
       /\ pc[t - 1] # "idle"
       /\ StartRebuild(t)
  /\ UNCHANGED <<ready, cvars, pvars, tvars, xvars>>

\* What follows a resumption of scanAll by task t that leaves it with the
\* cache c, project set p, result list q, directories ds and files fs.  When
\* nothing is left to read, scanAll sorts and returns, and initializeSearch
\* builds the index on the indexer the global variable then holds, all
\* before the event loop runs another handler.
Resume(t, c, p, q, ds, fs) ==
  /\ conversationsCache' = [conversationsCache EXCEPT ![t] = c]
  /\ projects' = [projects EXCEPT ![t] = p]
  /\ projectDirs' = [projectDirs EXCEPT ![t] = ds]
  /\ jsonlFiles' = [jsonlFiles EXCEPT ![t] = fs]
  /\ IF ds = <<>> /\ fs = <<>> /\ rescans[t] > 0
     THEN \* scanAll was called on its own: it sorts and returns
          /\ conversations' = [conversations EXCEPT ![t] = SortDesc(q)]
          /\ pc' = [pc EXCEPT ![t] = "done"]
          /\ UNCHANGED <<documents, index, completed, prevGen, rebuildReplied>>
     ELSE IF ds = <<>> /\ fs = <<>>
     THEN /\ conversations' = [conversations EXCEPT ![t] = SortDesc(q)]
          /\ documents' = [documents EXCEPT ![indexer] = Range(q)]
          /\ index' = [index EXCEPT ![indexer] = IndexAddAll(index[indexer], SortDesc(q))]
          /\ pc' = [pc EXCEPT ![t] = "done"]
          /\ completed' = completed + 1
          /\ prevGen' = Range(q)
          /\ rebuildReplied' = IF t > 1 THEN rebuildReplied + 1 ELSE rebuildReplied
     ELSE /\ conversations' = [conversations EXCEPT ![t] = q]
          /\ pc' = [pc EXCEPT ![t] = "scan"]
          /\ UNCHANGED <<documents, index, completed, prevGen, rebuildReplied>>
  /\ lastReply' = NoReply
  /\ UNCHANGED <<ready, disk, diskChanges, scanner, indexer, snapshot,
                 indexReadySent, cvars, pvars, tvars, xvars>>

\* readdir(this.projectsDir) resolves
ReadProjectsDir(t) ==
  /\ pc[t] = "readdir"
  /\ Resume(t, conversationsCache[t], projects[t], conversations[t], DirNames, <<>>)

\* the next project directory: stat, then findJsonlFiles resolves
ListProjectDir(t) ==
  /\ pc[t] = "scan"
  /\ jsonlFiles[t] = <<>>
  /\ projectDirs[t] # <<>>
  /\ Resume(t, conversationsCache[t], projects[t], conversations[t],
            Tail(projectDirs[t]), Listing(Head(projectDirs[t])))

\* the next file of the directory: stat, the size test, parseConversation
ScanFile(t) ==
  /\ pc[t] = "scan"
  /\ jsonlFiles[t] # <<>>
  /\ LET f == Head(jsonlFiles[t]) IN
       IF disk[f] = "absent"
       THEN \* stat rejects: caught by the handler around the directory
            Resume(t, conversationsCache[t], projects[t], conversations[t],
                   projectDirs[t], <<>>)
       ELSE IF Contributes(disk[f])
       THEN Resume(t, conversationsCache[t] \cup {f},
                   projects[t] \cup {ProjectPathOf[f]},
                   Append(conversations[t], f),
                   projectDirs[t], Tail(jsonlFiles[t]))
       ELSE Resume(t, conversationsCache[t], projects[t], conversations[t],
                   projectDirs[t], Tail(jsonlFiles[t]))

RebuildStep == \E t \in Tasks : ReadProjectsDir(t) \/ ListProjectDir(t) \/ ScanFile(t)

\* A transcript is written, truncated or removed by another program
DiskChange ==
  /\ diskChanges < MaxDiskChanges
  /\ \E f \in Files, st \in FileStatus :
       /\ disk[f] # st
       /\ disk' = [disk EXCEPT ![f] = st]
  /\ diskChanges' = diskChanges + 1
  /\ lastReply' = NoReply
  /\ UNCHANGED <<ready, scanner, indexer, conversationsCache, projects,
                 documents, index, pc, projectDirs, jsonlFiles, conversations,
                 snapshot, completed, prevGen, indexReadySent,
                 rebuildReplied, cvars, pvars, tvars, xvars>>

\* Answers of the four reader operations over a scanner cache c, project
\* set p and document set d
getProjects(p) == Ascending(p)
\* Faulty variant: no lookup, the id is taken to be cached.
getConversation_noLookup(c, id) == <<id>>

getConversation(c, id) == IF id \in c THEN <<id>> ELSE <<>>
getStats(d, p) == <<getDocumentCount(d), Len(getProjects(p))>>

ProjectsOf(G) == {ProjectPathOf[f] : f \in G}

\* The answer computed from a complete generation G
AnswerFrom(op, arg, G) ==
  CASE op = "search" -> getRecent(G, DefaultLimit, <<>>)
    [] op = "getConversation" -> getConversation(G, arg)
    [] op = "getProjects" -> getProjects(ProjectsOf(G))
    [] OTHER -> getStats(G, ProjectsOf(G))

\* The generation a scan of the disk as it is returns
DiskGeneration == {f \in Files : disk[f] = "valid"}

\* A rebuild is in flight alone and the disk is as it was when it started
RebuildAlone ==
  \E t \in Tasks :
    /\ InFlight(t)
    /\ \A u \in Tasks \ {t} : ~InFlight(u)
    /\ snapshot[t] = disk

\* What a reader handler leaves unchanged: everything but its reply
readerUnchanged ==
  <<ready, disk, diskChanges, scanner, indexer, conversationsCache, projects,
    documents, index, pc, projectDirs, jsonlFiles, conversations, snapshot,
    completed, prevGen, indexReadySent, rebuildReplied, cvars, pvars, tvars, xvars>>

\* ipcMain.handle('search') for a query and the filters {project, limit}
SearchFor(query, project, limit) ==
  /\ lastReply' = [op |-> "search",
                   arg |-> [query |-> query, filter |-> project, limit |-> limit],
                   val |-> IF indexer = 0 THEN <<>>
                           ELSE search(documents[indexer], index[indexer], query,
                                       LimitOrDefault(limit), project)]
  /\ UNCHANGED readerUnchanged

\* the handler called with an empty query and no filters
Search ==
  /\ ready
  /\ SearchFor(<<>>, <<>>, -1)

\* ipcMain.handle('get-conversation')
GetConversation ==
  /\ ready
  /\ \E id \in Files :
       lastReply' = [op |-> "getConversation", arg |-> id,
                     val |-> IF scanner = 0 THEN <<>>
                             ELSE getConversation(conversationsCache[scanner], id)]
  /\ UNCHANGED readerUnchanged

\* ipcMain.handle('get-projects')
GetProjects ==
  /\ ready
  /\ lastReply' = [op |-> "getProjects", arg |-> 0,
                   val |-> IF scanner = 0 THEN <<>> ELSE getProjects(projects[scanner])]
  /\ UNCHANGED readerUnchanged

\* ipcMain.handle('get-stats')
GetStats ==
  /\ ready
  /\ lastReply' = [op |-> "getStats", arg |-> 0,
                   val |-> IF scanner = 0 \/ indexer = 0 THEN <<0, 0>>
                           ELSE getStats(documents[indexer], projects[scanner])]
  /\ UNCHANGED readerUnchanged

Next ==
  \/ AppReady
  \/ RebuildIndex
  \/ RebuildStep
  \/ DiskChange
  \/ Search
  \/ GetConversation
  \/ GetProjects
  \/ GetStats

Spec == Init /\ [][Next]_vars

\* The event loop runs every resumption of a rebuild that is due
FairSpec == Spec /\ WF_vars(RebuildStep)

----------------------------------------------------------------------------
(* The scanner on its own: the scanner made at startup, on which scanAll   *)
(* is called again each time it has returned, while the disk changes.      *)

ScanAgain == Rescan(1)

NextScan == AppReady \/ ScanAgain \/ RebuildStep \/ DiskChange

SpecScan == Init /\ [][NextScan]_vars

\* C24: once a call of scanAll has returned, the keys of the cache are the
\* ids of the list it returned and getProjects() is the sorted list,
\* without duplicates, of their project paths, whatever the calls before
\* left in the scanner.
C24_FullRescan ==
  \A t \in Tasks :
    pc[t] = "done" =>
      /\ conversationsCache[t] = Range(conversations[t])
      /\ Len(conversations[t]) = Cardinality(conversationsCache[t])
      /\ Range(getProjects(projects[t])) = {ProjectPathOf[f] : f \in Range(conversations[t])}
      /\ \A i, j \in 1..Len(getProjects(projects[t])) :
           i < j => getProjects(projects[t])[i] < getProjects(projects[t])[j]

\* the first scan returned conversations of both projects; a transcript
\* was removed, and the scan after it returned one conversation less
C24_Witness ==
  /\ pc[1] = "done" /\ rescans[1] >= 1 /\ diskChanges = 1
  /\ Cardinality(prevGen) = 3
  /\ Cardinality(conversationsCache[1]) = 2
  /\ Len(getProjects(projects[1])) = 1

(* The indexer on its own: one SearchIndexer object, on which buildIndex   *)
(* is called with lists of Conversations and which is searched directly    *)
(* and through the 'search' handler.                                       *)

\* Lists of Conversations with distinct ids, in any order
ConversationLists ==
  {q \in UNION {[1..n -> Files] : n \in 0..Cardinality(Files)} :
     \A i, j \in 1..Len(q) : i # j => q[i] # q[j]}

Queries ==
  {<<>>, <<" ">>, <<"x">>, <<"y">>, <<"a">>}
    \cup {SessionIdOf[f] : f \in Files}
ProjectFilters ==
  {<<>>, <<"a">>, <<"c", "/", "d">>}
    \cup {ProjectPathString(p) : p \in DOMAIN ProjectSegments}
Limits == 0..MaxLimit

InitIndex == ClassifierIdle /\ ParserIdle /\ TextIdle /\ MainIdle /\ ExtraIdle

\* indexer = new SearchIndexer()
NewSearchIndexer ==
  /\ indexer = 0
  /\ indexer' = 1
  /\ lastReply' = NoReply
  /\ UNCHANGED <<ready, disk, diskChanges, scanner, conversationsCache, projects,
                 documents, index, pc, projectDirs, jsonlFiles, conversations,
                 snapshot, completed, prevGen, indexReadySent, rebuildReplied,
                 cvars, pvars, tvars, xvars>>

\* indexer.buildIndex(list)
BuildIndex ==
  /\ indexer # 0
  /\ completed < MaxBuilds
  /\ \E list \in ConversationLists :
       /\ documents' = [documents EXCEPT ![indexer] = Range(list)]
       /\ index' = [index EXCEPT ![indexer] = IndexAddAll(index[indexer], list)]
       /\ conversations' = [conversations EXCEPT ![indexer] = list]
  /\ completed' = completed + 1
  /\ lastReply' = NoReply
  /\ UNCHANGED <<ready, disk, diskChanges, scanner, indexer, conversationsCache,
                 projects, pc, projectDirs, jsonlFiles, snapshot, prevGen,
                 indexReadySent, rebuildReplied, cvars, pvars, tvars, xvars>>

\* indexer.search(query, limit, projectFilter)
IndexerSearch ==
  /\ indexer # 0
  /\ \E query \in Queries, limit \in Limits, project \in ProjectFilters :
       lastReply' = [op |-> "indexer.search",
                     arg |-> [query |-> query, filter |-> project, limit |-> limit],
                     val |-> search(documents[indexer], index[indexer], query,
                                    limit, project)]
  /\ UNCHANGED readerUnchanged

\* the 'search' handler with any query and filters
SearchRequest ==
  \E query \in Queries, limit \in Limits \cup {-1}, project \in ProjectFilters :
    SearchFor(query, project, limit)

NextIndex == NewSearchIndexer \/ BuildIndex \/ IndexerSearch \/ SearchRequest

SpecIndex == InitIndex /\ [][NextIndex]_vars

\* The answer of an indexer made anew on which only buildIndex(list) ran
FreshAnswer(list, query, limit, project) ==
  search(Range(list), IndexAddAll(<<>>, list), query, limit, project)

\* C18: after any calls of buildIndex on an indexer, the document count
\* and the answer of every search are those of a new indexer on which
\* only the last list was built.
C18_BuildReplaces ==
  (indexer # 0 /\ completed >= 1) =>
    /\ getDocumentCount(documents[indexer]) = Len(conversations[indexer])
    /\ \A query \in Queries, limit \in Limits, project \in ProjectFilters :
         search(documents[indexer], index[indexer], query, limit, project)
           = FreshAnswer(conversations[indexer], query, limit, project)

\* C19: for an empty or whitespace-only query, indexer.search returns the
\* min(limit, n) most recent of the n indexed documents whose project name
\* contains the filter (all of them without a filter), each once, in
\* descending order of timestamp.
C19_RecentDocuments ==
  (lastReply.op = "indexer.search" /\ Trim(lastReply.arg.query) = <<>>) =>
    LET M == {f \in documents[indexer] :
                Includes(ProjectNameOf(f), lastReply.arg.filter)}
        v == lastReply.val
        n == Cardinality(M)
    IN /\ Len(v) = IF lastReply.arg.limit < n THEN lastReply.arg.limit ELSE n
       /\ Range(v) \subseteq M
       /\ \A i, j \in 1..Len(v) :
            i < j => v[i] # v[j] /\ TimestampOf[v[i]] >= TimestampOf[v[j]]
       /\ \A f \in M \ Range(v) : \A i \in 1..Len(v) :
            TimestampOf[v[i]] >= TimestampOf[f]

\* a whitespace query with a filter that two of three documents pass and a
\* limit that cuts one of them
C19_Witness ==
  /\ lastReply.op = "indexer.search"
  /\ lastReply.arg = [query |-> <<" ">>, filter |-> <<"c", "/", "d">>, limit |-> 1]
  /\ documents[indexer] = {1, 2, 3}
  /\ lastReply.val = <<2>>

\* C20: for a non-empty query, a limit >= 0 and any project filter, a
\* search returns at most limit results, asked of the indexer or through
\* the 'search' handler.
C20_AtMostLimit ==
  (/\ lastReply.op \in {"indexer.search", "search"}
   /\ Trim(lastReply.arg.query) # <<>>
   /\ lastReply.arg.limit >= 0)
    => Len(lastReply.val) <= lastReply.arg.limit

(* decodeProjectName on its own.  A path is the string of its characters; *)
(* the directory of a project is named by the assistant tool after the    *)
(* project's absolute path, the separators replaced by "-".               *)

\* str.replace(/a/g, b) for one-character a and b
ReplaceAll(str, a, b) == [i \in 1..Len(str) |-> IF str[i] = a THEN b ELSE str[i]]

\* str.replace(/^a/, b)
ReplaceLeading(str, a, b) ==
  IF str # <<>> /\ str[1] = a THEN <<b>> \o Tail(str) ELSE str

decodeProjectName(dirName) == ReplaceAll(ReplaceLeading(dirName, "-", "/"), "-", "/")

\* the name the tool gives the directory of the project at an absolute path
EncodeProjectPath(path) == ReplaceAll(path, "/", "-")

SegmentNames == {<<"u">>, <<"a", "b">>, <<"m", "-", "a">>, <<"c", ".", "d">>}

RECURSIVE AbsolutePath(_)
AbsolutePath(segs) ==
  IF segs = <<>> THEN <<>> ELSE <<"/">> \o segs[1] \o AbsolutePath(Tail(segs))

InitDecode ==
  /\ \E n \in 0..MaxSegments : \E segs \in [1..n -> SegmentNames] :
       originalPath = IF n = 0 THEN <<"/">> ELSE AbsolutePath(segs)
  /\ projectDirName = <<>>
  /\ decodedPath = <<>>
  /\ decodeStage = 0
  /\ earlier = <<>>
  /\ rescans = [t \in Tasks |-> 0]
  /\ PreviewIdle /\ ViewIdle
  /\ ClassifierIdle /\ ParserIdle /\ TextIdle /\ MainIdle

\* the tool writes the transcripts of the project into its directory
EncodeDirectory ==
  /\ decodeStage = 0
  /\ projectDirName' = EncodeProjectPath(originalPath)
  /\ decodeStage' = 1
  /\ UNCHANGED <<originalPath, decodedPath, cvars, pvars, mvars, tvars, earlier,
                 rescans, gvars, nvars>>

\* scanAll: const fallbackName = this.decodeProjectName(projectDir)
DecodeProjectName ==
  /\ decodeStage = 1
  /\ decodedPath' = decodeProjectName(projectDirName)
  /\ decodeStage' = 2
  /\ UNCHANGED <<originalPath, projectDirName, cvars, pvars, mvars, tvars, earlier,
                 rescans, gvars, nvars>>

NextDecode == EncodeDirectory \/ DecodeProjectName

SpecDecode == InitDecode /\ [][NextDecode]_vars

\* C27: decoding the directory name made of an absolute path p by
\* replacing its separators with the delimiter yields p again, for every
\* absolute path p.
C27_DecodeReversesEncoding ==
  decodeStage = 2 => decodedPath = originalPath

(* generatePreview on its own.  A text is a run of filler, the query in   *)
(* another case or nothing, and a run of filler, possibly followed by the  *)
(* query once more; the runs have the lengths at which the window reaches  *)
(* an edge of the text or does not.                                        *)

Fill(n) == [i \in 1..n |-> "f"]
PreviewQueries == {<<"x", "y">>, <<"X">>}
OtherCase(q) == [i \in 1..Len(q) |-> IF q[i] = "x" THEN "X" ELSE IF q[i] = "X" THEN "x" ELSE q[i]]
LeadLengths == {0, 1, ContextBefore - 1, ContextBefore, ContextBefore + 1, 5000}
TailLengths == {0, 1, ContextAfter - 1, ContextAfter, ContextAfter + 1, 4998}

InitPreview ==
  /\ \E q \in PreviewQueries, lead \in LeadLengths, tail \in TailLengths,
        shape \in {"once", "twice", "none"} :
       /\ docQuery = q
       /\ docText = CASE shape = "once" -> Fill(lead) \o OtherCase(q) \o Fill(tail)
                       [] shape = "twice" ->
                            Fill(lead) \o OtherCase(q) \o Fill(tail) \o OtherCase(q)
                       [] OTHER -> Fill(lead) \o Fill(tail)
  /\ preview = <<>>
  /\ previewed = FALSE
  /\ earlier = <<>>
  /\ rescans = [t \in Tasks |-> 0]
  /\ DecodeIdle /\ ViewIdle
  /\ ClassifierIdle /\ ParserIdle /\ TextIdle /\ MainIdle

\* search: const preview = this.generatePreview(doc.content, query)
GeneratePreview ==
  /\ ~previewed
  /\ preview' = generatePreview(docText, docQuery)
  /\ previewed' = TRUE
  /\ UNCHANGED <<docText, docQuery, cvars, pvars, mvars, tvars, earlier, rescans,
                 dvars, nvars>>

NextPreview == GeneratePreview

SpecPreview == InitPreview /\ [][NextPreview]_vars

StartsWith(str, pre) == Len(str) >= Len(pre) /\ SubSeq(str, 1, Len(pre)) = pre
EndsWith(str, suf) ==
  Len(str) >= Len(suf) /\ SubSeq(str, Len(str) - Len(suf) + 1, Len(str)) = suf

\* the index, from 0, of the first occurrence of the query in the text,
\* whatever the case of the letters; -1 when there is none
FirstOccurrence ==
  LET same(i) == \A k \in 1..Len(docQuery) : Lower(docText[i + k]) = Lower(docQuery[k])
      at == {i \in 0..(Len(docText) - Len(docQuery)) : same(i)}
  IN IF at = {} THEN -1 ELSE CHOOSE i \in at : \A j \in at : i <= j

\* C21: the preview is built around the first occurrence of the query, at
\* index i, whatever the case: it starts with "..." iff i > 80 and ends
\* with "..." iff i + len(query) + 120 < len(text), and between them it is
\* the text from 80 characters before the occurrence to 120 after it; when
\* the query does not occur it is the first 200 characters, followed by
\* "..." iff the text is longer than 200.
C21_PreviewWindow ==
  previewed =>
    LET i == FirstOccurrence
        n == Len(docText)
        from == IF i > 80 THEN i - 80 ELSE 0
        to == IF i + Len(docQuery) + 120 < n THEN i + Len(docQuery) + 120 ELSE n
    IN IF i >= 0
       THEN /\ StartsWith(preview, Ellipsis) <=> i > 80
            /\ EndsWith(preview, Ellipsis) <=> i + Len(docQuery) + 120 < n
            /\ preview = (IF i > 80 THEN Ellipsis ELSE <<>>)
                           \o SubSeq(docText, from + 1, to)
                           \o (IF i + Len(docQuery) + 120 < n THEN Ellipsis ELSE <<>>)
       ELSE /\ EndsWith(preview, Ellipsis) <=> n > 200
            /\ preview = (IF n > 200 THEN SubSeq(docText, 1, 200) \o Ellipsis ELSE docText)

\* a match that starts at character 5000 of a text of 10000 characters has
\* a preview with an ellipsis at both ends
C21_Witness ==
  /\ previewed
  /\ Len(docText) = 10000
  /\ FirstOccurrence = 5000
  /\ StartsWith(preview, Ellipsis) /\ EndsWith(preview, Ellipsis)
  /\ Len(preview) = 3 + 80 + 2 + 120 + 3

\* the limit a search ran with
EffectiveLimit ==
  IF lastReply.op = "search" THEN LimitOrDefault(lastReply.arg.limit)
  ELSE lastReply.arg.limit

\* C22: after an index is built from a list of Conversations, a search for
\* the exact sessionId of one of them, without a filter and with a limit
\* that cuts nothing, has the id of that Conversation among its results.
C22_SessionIdRoundTrip ==
  (/\ lastReply.op \in {"indexer.search", "search"}
   /\ indexer # 0
   /\ lastReply.arg.filter = <<>>
   /\ EffectiveLimit >= Cardinality(Files))
    => \A f \in documents[indexer] :
         lastReply.arg.query = SessionIdOf[f] => f \in Range(lastReply.val)

\* the conversations a search with the filter P is to return: those of
\* the indexed conversations whose projectPath is P and that the query
\* selects (all of them when the query is empty)
OfProject(P) ==
  {f \in documents[indexer] :
     /\ ProjectPathOf[f] = P
     /\ \/ Trim(lastReply.arg.query) = <<>>
        \/ \E field \in {"content", "projectName"} :
             QueryTerms(lastReply.arg.query) \subseteq FieldWords(f, field)}

\* C23: a 'search' whose project filter is a project path P that
\* getProjects() returns answers with conversations whose projectPath is
\* P only, with all of them up to the limit.
C23_ProjectFilterEndToEnd ==
  (lastReply.op = "search" /\ indexer # 0) =>
    \A i \in 1..Len(getProjects(ProjectsOf(documents[indexer]))) :
      LET P == getProjects(ProjectsOf(documents[indexer]))[i]
          n == Cardinality(OfProject(P))
      IN lastReply.arg.filter = ProjectPathString(P) =>
           /\ Range(lastReply.val) \subseteq OfProject(P)
           /\ Len(lastReply.val) = IF EffectiveLimit < n THEN EffectiveLimit ELSE n

\* C29: a search with a non-empty query and a project filter returns at
\* least min(k, limit) results, where k documents match the query in the
\* engine and have a project name that contains the filter.
C29_CompleteUpToLimit ==
  (/\ lastReply.op = "indexer.search"
   /\ Trim(lastReply.arg.query) # <<>>
   /\ lastReply.arg.filter # <<>>)
    => LET k == Cardinality(
                  {f \in documents[indexer] :
                     /\ Includes(ProjectNameOf(f), lastReply.arg.filter)
                     /\ \E field \in {"content", "projectName"} :
                          QueryTerms(lastReply.arg.query) \subseteq FieldWords(f, field)})
       IN Len(lastReply.val) >= IF k < lastReply.arg.limit THEN k ELSE lastReply.arg.limit

----------------------------------------------------------------------------
(* Properties of the main process *)

\* C1: a reader operation issued while a rebuild is in flight answers from
\* the complete previous generation or from the complete new generation,
\* never from an empty or partly filled cache or index.
C1_ReadersSeeCompleteGeneration ==
  (lastReply.op # "none" /\ RebuildAlone) =>
    \/ lastReply.val = AnswerFrom(lastReply.op, lastReply.arg, prevGen)
    \/ lastReply.val = AnswerFrom(lastReply.op, lastReply.arg, DiskGeneration)

\* C2: every rebuild scans and then builds the index, and once it has
\* completed an index-ready notification is eventually sent for it, the
\* one started at startup included.
C2_IndexReadyNotified ==
  \A n \in Tasks : (completed >= n) ~> (indexReadySent >= n)

\* C11: a Conversation enters a result list, a cache, a project set or an
\* index only when its file has at least one eligible message at the step
\* that parses it (a Conversation is never made with an empty messages
\* sequence); an index only takes documents of a result list.
HasMessages(f) == MessageCountOf(TranscriptOf(disk[f])) > 0

C11_OnlyNonEmptyConversations ==
  [][\A t \in Tasks :
       /\ \A f \in (Range(conversations'[t]) \ Range(conversations[t]))
                    \cup (conversationsCache'[t] \ conversationsCache[t]) :
            HasMessages(f)
       /\ \A p \in projects'[t] \ projects[t] :
            \E f \in conversationsCache'[t] : ProjectPathOf[f] = p /\ HasMessages(f)
       /\ documents'[t] \subseteq
            documents[t] \cup UNION {Range(conversations'[u]) : u \in Tasks}]_vars

\* a scan of a disk with a transcript of no eligible message has completed
C11_Witness ==
  \E t \in Tasks :
    /\ pc[t] = "done" /\ snapshot[t] = disk /\ indexer = t
    /\ disk = <<"nomsg", "valid", "valid">>
    /\ conversationsCache[t] = {2, 3}
    /\ documents[t] = {2, 3}
    /\ projects[t] = {1, 2}

\* C14: when a scan has completed, every transcript that was readable,
\* non-empty and valid during the whole scan is in the list it returned and
\* in its cache, whatever failed on other files or directories.
C14_FailureIsolated ==
  \A t \in Tasks :
    (pc[t] = "done" /\ diskChanges <= 1) =>
      \A f \in Files :
        (snapshot[t][f] = "valid" /\ disk[f] = "valid") =>
          f \in Range(conversations[t]) /\ f \in conversationsCache[t]

C16_SortedDescending ==
  \A t \in Tasks :
    pc[t] = "done" =>
      \A i \in 1..(Len(conversations[t]) - 1) :
        TimestampOf[conversations[t][i]] >= TimestampOf[conversations[t][i + 1]]

\* three transcripts scanned in another order than their timestamps
C16_Witness ==
  \E t \in Tasks : pc[t] = "done" /\ conversations[t] = <<2, 3, 1>>

\* C17: get-conversation answers null when there is no scanner yet or the
\* current scanner's cache does not hold the id (so before its scan has
\* produced anything and for an id no scan produced), answers the cached
\* Conversation otherwise, and leaves every cache and project set unchanged.
C17_LookupOnly ==
  [][lastReply'.op = "getConversation" =>
       /\ UNCHANGED <<conversationsCache, projects, scanner>>
       /\ lastReply'.val =
            IF scanner # 0 /\ lastReply'.arg \in conversationsCache[scanner]
            THEN <<lastReply'.arg>> ELSE <<>>
       /\ (lastReply'.arg \notin UNION {conversationsCache[t] : t \in Tasks}
             => lastReply'.val = <<>>)]_vars

\* a lookup before the first scan has produced anything, for the id of a
\* valid transcript
C17_Witness ==
  /\ lastReply.op = "getConversation" /\ lastReply.val = <<>>
  /\ completed = 0 /\ pc[1] = "readdir"
  /\ disk[lastReply.arg] = "valid"

\* C28: whenever no rebuild is in flight, after any rebuild requests
\* (overlapping ones and changes of the disk between them included), the
\* document ids of the current index are the keys of the current scanner
\* cache: every id a search returns resolves through getConversation and
\* the conversation count of getStats is the number of cached conversations.
C28_IndexMatchesCache ==
  (scanner # 0 /\ \A t \in Tasks : ~InFlight(t)) =>
    /\ documents[indexer] = conversationsCache[scanner]
    /\ \A id \in Range(search(documents[indexer], index[indexer], <<>>,
                               DefaultLimit, <<>>)) :
         getConversation(conversationsCache[scanner], id) # <<>>
    /\ getStats(documents[indexer], projects[scanner])[1]
         = Cardinality(conversationsCache[scanner])

----------------------------------------------------------------------------
(* The conversation view (renderer/src/components/ConversationView.tsx and *)
(* MessageNavigation.tsx).  The conversation prop is written by its id,    *)
(* the texts of its messages and a mark that tells the object from the one *)
(* selected before it.  An event handler sets state and the component      *)
(* renders; the effects whose dependencies changed run after that render,  *)
(* and before any other event is handled.                                  *)

MessageTexts == {<<"x">>, <<"X", "y">>}
ChatQueries == {<<>>, <<"x">>, <<"y">>, <<"z">>}

\* The conversations getConversation can return: a transcript that was
\* rewritten and scanned again has its id and other messages
Selectable ==
  {[id |-> i, messages |-> ms] :
     i \in {1, 2}, ms \in UNION {[1..n -> MessageTexts] : n \in 1..MaxMessages}}

\* chatSearchMatches: the indices of the messages that contain the query
MatchingMessages(msgs, query) ==
  IF query = <<>> THEN <<>>
  ELSE SelectSeq([i \in 1..Len(msgs) |-> i - 1],
                 LAMBDA i : Includes(toLowerCase(msgs[i + 1]), toLowerCase(query)))

chatSearchMatches == MatchingMessages(displayed.messages, chatSearchQuery)

\* The values the dependency arrays of the effects are made of
Deps ==
  [id |-> displayed.id,
   messages |-> <<displayed.id, displayed.obj>>,
   query |-> chatSearchQuery,
   matchIndex |-> currentMatchIndex,
   matchCount |-> Len(chatSearchMatches)]

Settled == committed = Deps

hasPrevious(currentIndex) == currentIndex > 0
hasNext(currentIndex, totalMessages) == currentIndex < totalMessages - 1

\* The effects of the render that was committed last, in their order: the
\* reset of the message index and the reset of the search for a new
\* conversation id, the reset of the match index for a new match count,
\* and the scroll to the current match for a new match index or match list
RunEffects ==
  /\ ~Settled
  /\ LET m == chatSearchMatches
         idChanged == committed.id # displayed.id
         countChanged == committed.matchCount # Len(m)
         matchesChanged == \/ committed.query # chatSearchQuery
                           \/ committed.messages # <<displayed.id, displayed.obj>>
         scrolls == /\ committed.matchIndex # currentMatchIndex \/ matchesChanged
                    /\ Len(m) # 0
                    /\ currentMatchIndex < Len(m)
     IN /\ currentMessageIndex' = IF scrolls THEN m[currentMatchIndex + 1]
                                   ELSE IF idChanged THEN 0
                                   ELSE currentMessageIndex
        /\ currentMatchIndex' = IF idChanged \/ countChanged THEN 0 ELSE currentMatchIndex
        /\ chatSearchOpen' = IF idChanged THEN FALSE ELSE chatSearchOpen
        /\ chatSearchQuery' = IF idChanged THEN <<>> ELSE chatSearchQuery
  /\ committed' = Deps
  /\ UNCHANGED <<displayed, cvars, pvars, mvars, tvars, earlier, rescans, gvars, dvars>>

\* What an event handler of the view leaves unchanged besides its state
viewUnchanged == <<committed, cvars, pvars, mvars, tvars, earlier, rescans, gvars, dvars>>

\* App.handleSelectResult: setSelectedConversation(conversation)
SelectConversation ==
  /\ Settled
  /\ \E c \in Selectable :
       displayed' = [id |-> c.id, messages |-> c.messages, obj |-> 1 - displayed.obj]
  /\ UNCHANGED <<currentMessageIndex, chatSearchOpen, chatSearchQuery,
                 currentMatchIndex, viewUnchanged>>

Mounted == displayed # NoneDisplayed /\ Settled

\* scrollToMessage(index)
ScrollTo(idx) ==
  /\ currentMessageIndex' = idx
  /\ UNCHANGED <<displayed, chatSearchOpen, chatSearchQuery, currentMatchIndex,
                 viewUnchanged>>

\* MessageNavigation: the previous and next buttons
HandlePrevious ==
  /\ Mounted
  /\ hasPrevious(currentMessageIndex)
  /\ ScrollTo(currentMessageIndex - 1)

HandleNext ==
  /\ Mounted
  /\ hasNext(currentMessageIndex, Len(displayed.messages))
  /\ ScrollTo(currentMessageIndex + 1)

\* the first and last buttons, disabled as previous and next are
HandleJumpToFirst ==
  /\ Mounted
  /\ hasPrevious(currentMessageIndex)
  /\ ScrollTo(0)

HandleJumpToLast ==
  /\ Mounted
  /\ hasNext(currentMessageIndex, Len(displayed.messages))
  /\ ScrollTo(Len(displayed.messages) - 1)

\* the keydown handler of the window, when the search input has no focus
ArrowUp ==
  /\ Mounted
  /\ currentMessageIndex > 0
  /\ ScrollTo(currentMessageIndex - 1)

ArrowDown ==
  /\ Mounted
  /\ currentMessageIndex < Len(displayed.messages) - 1
  /\ ScrollTo(currentMessageIndex + 1)

\* Cmd+F, or the search toggle while the search is closed
OpenChatSearch ==
  /\ Mounted
  /\ chatSearchOpen' = TRUE
  /\ UNCHANGED <<displayed, currentMessageIndex, chatSearchQuery, currentMatchIndex,
                 viewUnchanged>>

\* closeChatSearch: Escape, the close button, or the toggle while it is open
CloseChatSearch ==
  /\ Mounted
  /\ chatSearchOpen
  /\ chatSearchOpen' = FALSE
  /\ chatSearchQuery' = <<>>
  /\ currentMatchIndex' = 0
  /\ UNCHANGED <<displayed, currentMessageIndex, viewUnchanged>>

\* typing in the search input: setChatSearchQuery(e.target.value)
TypeChatSearch ==
  /\ Mounted
  /\ chatSearchOpen
  /\ \E q \in ChatQueries : chatSearchQuery' = q
  /\ UNCHANGED <<displayed, currentMessageIndex, chatSearchOpen, currentMatchIndex,
                 viewUnchanged>>

HandleChatSearchNext ==
  /\ Mounted
  /\ chatSearchOpen
  /\ Len(chatSearchMatches) # 0
  /\ currentMatchIndex' = (currentMatchIndex + 1) % Len(chatSearchMatches)
  /\ UNCHANGED <<displayed, currentMessageIndex, chatSearchOpen, chatSearchQuery,
                 viewUnchanged>>

HandleChatSearchPrev ==
  /\ Mounted
  /\ chatSearchOpen
  /\ Len(chatSearchMatches) # 0
  /\ currentMatchIndex' =
       (currentMatchIndex - 1 + Len(chatSearchMatches)) % Len(chatSearchMatches)
  /\ UNCHANGED <<displayed, currentMessageIndex, chatSearchOpen, chatSearchQuery,
                 viewUnchanged>>

InitView ==
  /\ ViewIdle
  /\ earlier = <<>>
  /\ rescans = [t \in Tasks |-> 0]
  /\ PreviewIdle /\ DecodeIdle
  /\ ClassifierIdle /\ ParserIdle /\ TextIdle /\ MainIdle

NextView ==
  \/ SelectConversation \/ RunEffects
  \/ HandlePrevious \/ HandleNext \/ HandleJumpToFirst \/ HandleJumpToLast
  \/ ArrowUp \/ ArrowDown
  \/ OpenChatSearch \/ CloseChatSearch \/ TypeChatSearch
  \/ HandleChatSearchNext \/ HandleChatSearchPrev

SpecView == InitView /\ [][NextView]_vars

\* C30: the current message index is within 0..messages.length-1 of the
\* displayed conversation and, when there are matches, the current match
\* index is within 0..matchCount-1; previous and first are disabled at the
\* first message, next and last at the last one.
C30_NavigationInRange ==
  displayed # NoneDisplayed =>
    /\ currentMessageIndex \in 0..(Len(displayed.messages) - 1)
    /\ Len(chatSearchMatches) > 0 =>
         currentMatchIndex \in 0..(Len(chatSearchMatches) - 1)
    /\ currentMessageIndex = 0 => ~hasPrevious(currentMessageIndex)
    /\ currentMessageIndex = Len(displayed.messages) - 1 =>
         ~hasNext(currentMessageIndex, Len(displayed.messages))

====
